---------------------------- MODULE Spec2Model ----------------------------
(***************************************************************************)
(* Model of the image filter and geometric transform engine of CV2         *)
(* (src/src/utils/perspective.ts, src/src/types.ts) and of the editor      *)
(* handlers that call it (src/unnamed/part_000).                           *)
(*                                                                         *)
(* The engine is a library of functions over RGBA8 buffers.  Each          *)
(* specification below draws the arguments of one entry point from bounded *)
(* sets in its initial states and has one action per call (or, for the     *)
(* filter pipeline, one action per statement of the pipeline).             *)
(*                                                                         *)
(* JavaScript numbers are modelled as exact rationals <<n, d>> (d > 0, in  *)
(* lowest terms): the code's arithmetic on the small integer inputs used   *)
(* here is followed operation by operation, without IEEE-754 rounding.     *)
(***************************************************************************)
EXTENDS Integers, Sequences, FiniteSets, TLC

VARIABLES
    pc,        \* control position of the call in progress
    args,      \* the arguments of the call (a record, per entry point)
    src,       \* the source buffer the call reads
    canvas,    \* the canvas the call writes (the working canvas `c`)
    result,    \* a returned value that is not a canvas (a matrix)
    filters,   \* the LayerFilters record of a pipeline run
    applied,   \* the filter calls made on the canvas so far, in order
    editor     \* the state of the editor component (layers and histories)

vars == <<pc, args, src, canvas, result, filters, applied, editor>>

None == "none"

\* JavaScript's null where a sequence is expected (solveLinearSystem's result).
Null == <<>>

----------------------------------------------------------------------------
(* Numbers *)

Abs(n) == IF n < 0 THEN -n ELSE n

Min(a, b) == IF a < b THEN a ELSE b

Max(a, b) == IF a > b THEN a ELSE b

RECURSIVE GCD(_, _)
GCD(a, b) == IF b = 0 THEN a ELSE GCD(b, a % b)

\* The rational n/d in lowest terms with a positive denominator.
Rat(n, d) ==
    LET g == GCD(Abs(n), Abs(d))
        s == IF d < 0 THEN -1 ELSE 1
    IN  <<(s * n) \div g, (s * d) \div g>>

R(n) == <<n, 1>>

\* Sums over the least common denominator, to keep the integers small.
RAdd(p, q) ==
    LET g == GCD(p[2], q[2])
    IN  Rat(p[1] * (q[2] \div g) + q[1] * (p[2] \div g), (p[2] \div g) * q[2])

RSub(p, q) == RAdd(p, <<-q[1], q[2]>>)

\* Products with the common factors cancelled first, for the same reason.
RMul(p, q) ==
    LET g == GCD(Abs(p[1]), q[2])
        k == GCD(Abs(q[1]), p[2])
    IN  Rat((p[1] \div g) * (q[1] \div k), (p[2] \div k) * (q[2] \div g))

\* p / q for q # 0 (the callers guard the division as the code does).
RDiv(p, q) == RMul(p, IF q[1] < 0 THEN <<-q[2], -q[1]>> ELSE <<q[2], q[1]>>)

RNeg(p) == <<-p[1], p[2]>>

RAbs(p) == <<Abs(p[1]), p[2]>>

\* p < q: by the integer parts, then by the fractional parts.
RLt(p, q) ==
    LET fp == p[1] \div p[2]
        fq == q[1] \div q[2]
        g == GCD(p[2], q[2])
    IN  IF fp # fq THEN fp < fq
        ELSE (p[1] - fp * p[2]) * (q[2] \div g) < (q[1] - fq * q[2]) * (p[2] \div g)

RLe(p, q) == ~RLt(q, p)

\* Math.floor
MathFloor(p) == p[1] \div p[2]

\* Math.round: the nearest integer, a half rounding towards +Infinity.
MathRound(p) ==
    LET f == p[1] \div p[2]
        rest == p[1] - f * p[2]
    IN  IF rest >= p[2] - rest THEN f + 1 ELSE f

\* Math.ceil
MathCeil(p) == -((-p[1]) \div p[2])

\* Storing without the clamp: the nearest integer, whatever its size.
ToUint8Unclamped(p) ==
    LET f == p[1] \div p[2]
        rest == p[1] - f * p[2]
    IN  IF rest < p[2] - rest THEN f
        ELSE IF rest > p[2] - rest THEN f + 1
        ELSE IF f % 2 = 0 THEN f ELSE f + 1

\* Storing a number into a Uint8ClampedArray: clamp to [0,255], round to the
\* nearest integer, a half rounding to the even neighbour.
ToUint8Clamped(p) ==
    LET f == p[1] \div p[2]
        rest == p[1] - f * p[2]
        n == IF rest < p[2] - rest THEN f
             ELSE IF rest > p[2] - rest THEN f + 1
             ELSE IF f % 2 = 0 THEN f ELSE f + 1
    IN  IF n < 0 THEN 0 ELSE IF n > 255 THEN 255 ELSE n

----------------------------------------------------------------------------
(* Perspective transform: computePerspectiveTransform, solveLinearSystem,  *)
(* transformPoint.  A point is <<x, y>>; a matrix is a sequence of 9       *)
(* rationals, m[k] in the code being Mat[k+1] here.                        *)

\* Line 71: maxVal < 1e-10.  Numerators and denominators stay below 2^31, which
\* is below 10^10, so a pivot that is not 0 is at least 1/2^31 > 1e-10: the
\* comparison is decided by the pivot being 0.
BelowPivotThreshold(p) == p[1] = 0

\* Lines 63-70: the first row, from `col` down, with the largest |M[row][col]|.
RECURSIVE FindPivot(_, _, _, _, _)
FindPivot(M, col, row, maxRow, n) ==
    IF row > n THEN maxRow
    ELSE IF RLt(RAbs(M[maxRow][col]), RAbs(M[row][col]))
         THEN FindPivot(M, col, row + 1, row, n)
         ELSE FindPivot(M, col, row + 1, maxRow, n)

\* Line 74: [M[col], M[maxRow]] = [M[maxRow], M[col]].
SwapRows(M, i, j) ==
    [r \in 1..Len(M) |-> IF r = i THEN M[j] ELSE IF r = j THEN M[i] ELSE M[r]]

\* EliminateBelow with the factor left out of the row update.
EliminateBelowNoFactor(M, col, n) ==
    [r \in 1..n |->
        IF r <= col THEN M[r]
        ELSE [j \in 1..(n + 1) |->
                IF j < col THEN M[r][j] ELSE RSub(M[r][j], M[col][j])]]

\* Lines 77-82: subtract factor * M[col] from every row below `col`.
EliminateBelow(M, col, n) ==
    [r \in 1..n |->
        IF r <= col THEN M[r]
        ELSE LET factor == RDiv(M[r][col], M[col][col])
             IN  [j \in 1..(n + 1) |->
                    IF j < col THEN M[r][j]
                    ELSE RSub(M[r][j], RMul(factor, M[col][j]))]]

\* Lines 61-83: the elimination loop; Null when a pivot is below the threshold.
RECURSIVE ForwardEliminate(_, _, _)
ForwardEliminate(M, col, n) ==
    IF col > n \/ M = Null THEN M
    ELSE LET maxRow == FindPivot(M, col, col + 1, col, n)
         IN  IF BelowPivotThreshold(RAbs(M[maxRow][col])) THEN Null
             ELSE ForwardEliminate(
                      EliminateBelow(SwapRows(M, col, maxRow), col, n), col + 1, n)

\* Lines 88-91: x[row] = M[row][n] - sum over col > row of M[row][col] * x[col].
RECURSIVE BackSum(_, _, _, _, _)
BackSum(M, x, row, col, n) ==
    IF col > n THEN M[row][n + 1]
    ELSE RSub(BackSum(M, x, row, col + 1, n), RMul(M[row][col], x[col]))

\* Lines 86-95: back substitution, from the last row up.
RECURSIVE BackSubstitute(_, _, _, _)
BackSubstitute(M, x, row, n) ==
    IF row < 1 THEN x
    ELSE LET v == RDiv(BackSum(M, x, row, row + 1, n), M[row][row])
         IN  BackSubstitute(M, [x EXCEPT ![row] = v], row - 1, n)

\* Lines 53-96.
solveLinearSystem(A, B) ==
    LET n == Len(B)
        M0 == [i \in 1..n |-> Append(A[i], B[i])]
        M == ForwardEliminate(M0, 1, n)
    IN  IF M = Null THEN Null
        ELSE BackSubstitute(M, [i \in 1..n |-> R(0)], n, n)

IdentityMatrix == <<R(1), R(0), R(0), R(0), R(1), R(0), R(0), R(0), R(1)>>

\* RowX with the sign of the g and h coefficients lost.
RowXPositive(s, d) ==
    <<R(s[1]), R(s[2]), R(1), R(0), R(0), R(0), R(s[1] * d[1]), R(s[2] * d[1])>>

\* Lines 39-42: the two rows of A and entries of B for point pair i.
RowX(s, d) ==
    <<R(s[1]), R(s[2]), R(1), R(0), R(0), R(0), R(-(s[1] * d[1])), R(-(s[2] * d[1]))>>

RowY(s, d) ==
    <<R(0), R(0), R(0), R(s[1]), R(s[2]), R(1), R(-(s[1] * d[2])), R(-(s[2] * d[2]))>>

SystemA(s, d) ==
    <<RowX(s[1], d[1]), RowY(s[1], d[1]), RowX(s[2], d[2]), RowY(s[2], d[2]),
      RowX(s[3], d[3]), RowY(s[3], d[3]), RowX(s[4], d[4]), RowY(s[4], d[4])>>

\* SystemB with the x and y entries of each point exchanged.
SystemBTransposed(d) ==
    <<R(d[1][2]), R(d[1][1]), R(d[2][2]), R(d[2][1]),
      R(d[3][2]), R(d[3][1]), R(d[4][2]), R(d[4][1])>>

\* Lines 39-42: B holds dst[i].x, dst[i].y for each point pair.
SystemB(d) ==
    <<R(d[1][1]), R(d[1][2]), R(d[2][1]), R(d[2][2]),
      R(d[3][1]), R(d[3][2]), R(d[4][1]), R(d[4][2])>>

\* computePerspectiveTransform with the zero matrix as the fallback.
computePerspectiveTransformZeroFallback(s, d) ==
    LET res == solveLinearSystem(SystemA(s, d), SystemB(d))
    IN  IF res = Null THEN [i \in 1..9 |-> R(0)] ELSE Append(res, R(1))

\* Lines 13-48.
computePerspectiveTransform(s, d) ==
    LET res == solveLinearSystem(SystemA(s, d), SystemB(d))
    IN  IF res = Null THEN IdentityMatrix ELSE Append(res, R(1))

\* Lines 125-131.  NaN when w = 0 and the numerator is 0 too, +-Infinity when
\* only w is 0: both are the value NotFinite here, a point with no coordinates.
NotFinite == <<>>

transformPoint(m, x, y) ==
    LET w == RAdd(RAdd(RMul(m[7], R(x)), RMul(m[8], R(y))), m[9])
        nx == RAdd(RAdd(RMul(m[1], R(x)), RMul(m[2], R(y))), m[3])
        ny == RAdd(RAdd(RMul(m[4], R(x)), RMul(m[5], R(y))), m[6])
    IN  IF w[1] = 0 THEN NotFinite
        ELSE <<RDiv(nx, w), RDiv(ny, w)>>

----------------------------------------------------------------------------
(* Specification of a call of computePerspectiveTransform(src, dst).       *)

MaxSide == 2

\* The rectangle [(0,0),(w,0),(w,h),(0,h)].
Rect(w, h) == << <<0, 0>>, <<w, 0>>, <<w, h>>, <<0, h>> >>

\* A quadrilateral that is no rectangle and has no corner at the origin.
Trapezoid == << <<1, 0>>, <<2, 0>>, <<2, 2>>, <<1, 1>> >>

\* The side of the square of the scaling example (side 10 scaled to side 20).
ExampleSide == 10

ExampleSquare == Rect(ExampleSide, ExampleSide)

\* Source points of which three lie on a line, and of which two coincide.
CollinearQuad == << <<0, 0>>, <<1, 0>>, <<2, 0>>, <<0, 1>> >>
CoincidentQuad == << <<0, 0>>, <<0, 0>>, <<2, 2>>, <<0, 1>> >>

SrcQuads ==
    {Rect(w, h) : w \in 1..MaxSide, h \in 1..MaxSide}
        \cup {Trapezoid, ExampleSquare, CollinearQuad, CoincidentQuad}

Displacements == {<<0, 0>>, <<1, 0>>, <<0, 1>>}

Displace(q, e) == [i \in 1..4 |-> <<q[i][1] + e[i][1], q[i][2] + e[i][2]>>]

Scale(q, k) == [i \in 1..4 |-> <<k * q[i][1], k * q[i][2]>>]

\* A pair whose projective mapping sends the origin to infinity: no matrix
\* with bottom-right entry 1 represents it.
OriginToInfinity == << <<2, 0>>, <<1, 0>>, <<1, 2>>, <<2, 2>> >>

\* Scale factors: enlarging, the reflection through the origin, and 0, which
\* puts the four destination points on one spot.
ScaleFactors == -1..(MaxSide + 1)

DstQuads(q) ==
    IF q = ExampleSquare THEN {Scale(q, 2)}
    ELSE {Displace(q, e) : e \in [1..4 -> Displacements]}
            \cup {Scale(q, k) : k \in ScaleFactors}
            \cup {Rect(w, h) : w \in 1..MaxSide, h \in 1..MaxSide}
            \cup (IF q = Trapezoid THEN {OriginToInfinity} ELSE {})

InitTransform ==
    /\ pc = "computePerspectiveTransform"
    /\ \E q \in SrcQuads : \E d \in DstQuads(q) : args = [src |-> q, dst |-> d]
    /\ src = None
    /\ canvas = None
    /\ result = Null
    /\ filters = None
    /\ applied = <<>>
    /\ editor = None

CallComputePerspectiveTransform ==
    /\ pc = "computePerspectiveTransform"
    /\ result' = computePerspectiveTransform(args.src, args.dst)
    /\ pc' = "done"
    /\ UNCHANGED <<args, src, canvas, filters, applied, editor>>

NextTransform == CallComputePerspectiveTransform

SpecTransform == InitTransform /\ [][NextTransform]_vars

\* Twice the signed area of the triangle p, q, r: 0 when they are collinear
\* (or two of them coincide).
Cross(p, q, r) == (q[1] - p[1]) * (r[2] - p[2]) - (q[2] - p[2]) * (r[1] - p[1])

NoThreeCollinear(q) ==
    \A i, j, k \in 1..4 : (i < j /\ j < k) => Cross(q[i], q[j], q[k]) # 0

\* Non-degenerate point pairs: no three source points and no three
\* destination points on a line, and the 8x8 system non-singular (the
\* ControlPointSet invariant of the data model).
NonDegenerate(s, d) ==
    /\ NoThreeCollinear(s)
    /\ NoThreeCollinear(d)
    /\ solveLinearSystem(SystemA(s, d), SystemB(d)) # Null

MapsEachPoint(m, s, d) ==
    \A i \in 1..4 : transformPoint(m, s[i][1], s[i][2]) = <<R(d[i][1]), R(d[i][2])>>

\* C9: for four non-degenerate point pairs computePerspectiveTransform(src, dst)
\* returns a matrix m with transformPoint(m, src[i]) = dst[i] for each i, in
\* index order, and m[8] = 1.
C9_MapsSrcToDst ==
    (pc = "done" /\ NonDegenerate(args.src, args.dst)) =>
        /\ MapsEachPoint(result, args.src, args.dst)
        /\ result[9] = R(1)

\* A non-degenerate pair whose matrix is a true projective one (g # 0) has
\* been solved.
C9_Witness ==
    /\ pc = "done"
    /\ NonDegenerate(args.src, args.dst)
    /\ args.src # args.dst
    /\ result[7] # R(0)

\* C10: src = dst = the rectangle [(0,0),(w,0),(w,h),(0,h)] gives the identity
\* matrix, as the solution of the linear system (not as the fallback).
C10_RectToItselfIsIdentity ==
    (pc = "done" /\ args.src = args.dst
        /\ \E w, h \in 1..MaxSide : args.src = Rect(w, h)) =>
        /\ result = IdentityMatrix
        /\ solveLinearSystem(SystemA(args.src, args.dst), SystemB(args.dst)) # Null

\* A rectangle that is no square has been mapped to itself.
C10_Witness ==
    /\ pc = "done"
    /\ args.src = Rect(MaxSide, 1)
    /\ args.dst = Rect(MaxSide, 1)
    /\ result = IdentityMatrix

\* The points at which a matrix is probed: a grid reaching beyond the squares
\* on both sides, and the inside of the example square.
ProbePoints == (-1..(ExampleSide + 1)) \X (-1..(ExampleSide + 1))

\* d is the square Rect(a, a) scaled about the origin by b / a, b # 0.
ScaledSquare(s, d, a, b) ==
    /\ s = Rect(a, a)
    /\ b # 0
    /\ \A i \in 1..4 : a * d[i][1] = b * s[i][1] /\ a * d[i][2] = b * s[i][2]

\* C11: when src is an axis-aligned square with a corner at the origin and dst
\* is src scaled uniformly by k about the origin, the matrix returned maps
\* every point (x, y) to (k * x, k * y).
C11_UniformScaleMapsByFactor ==
    \A a \in 1..ExampleSide : \A b \in (-ExampleSide..(2 * ExampleSide)) :
        (pc = "done" /\ ScaledSquare(args.src, args.dst, a, b)) =>
            \A pt \in ProbePoints :
                transformPoint(result, pt[1], pt[2])
                    = <<RMul(Rat(b, a), R(pt[1])), RMul(Rat(b, a), R(pt[2]))>>

\* The square of side 10 has been scaled to side 20, and (5, 5) goes to (10, 10).
C11_Witness ==
    /\ pc = "done"
    /\ args.src = ExampleSquare
    /\ args.dst = Rect(2 * ExampleSide, 2 * ExampleSide)
    /\ transformPoint(result, 5, 5) = <<R(10), R(10)>>

\* The elimination of the system of the call finds a pivot below the threshold.
Singular(s, d) == solveLinearSystem(SystemA(s, d), SystemB(d)) = Null

\* C12: when the linear system is singular (a pivot below the threshold, as
\* for coincident or collinear points) computePerspectiveTransform returns
\* exactly the identity matrix.
C12_SingularGivesIdentity ==
    (pc = "done" /\ Singular(args.src, args.dst)) => result = IdentityMatrix

\* Collinear source points have been given, and the identity came back for a
\* destination that differs from the source.
C12_Witness ==
    /\ pc = "done"
    /\ args.src = CollinearQuad
    /\ args.dst # args.src
    /\ Singular(args.src, args.dst)
    /\ result = IdentityMatrix

----------------------------------------------------------------------------
(* Buffers.  A buffer is [width, height, data]; data[y * width + x + 1] is  *)
(* the pixel <<r, g, b, a>> at (x, y): the four bytes data[i..i+3] of the   *)
(* ImageData, i = (y * width + x) * 4.                                      *)

PixelAt(b, x, y) == b.data[y * b.width + x + 1]

XOf(b, i) == (i - 1) % b.width

YOf(b, i) == (i - 1) \div b.width

InBuffer(b, x, y) == x >= 0 /\ x < b.width /\ y >= 0 /\ y < b.height

PixelCount(b) == b.width * b.height

TransparentBlack == <<0, 0, 0, 0>>

\* createImageData(w, h): every byte 0.
createImageData(w, h) ==
    [width |-> w, height |-> h, data |-> [i \in 1..(w * h) |-> TransparentBlack]]

\* All buffers of at most maxW x maxH pixels over the pixel values `pal`.
Buffers(maxW, maxH, pal) ==
    UNION {{[width |-> w, height |-> h, data |-> d] : d \in [1..(w * h) -> pal]} :
              <<w, h>> \in (1..maxW) \X (1..maxH)}

MaxDim == 2

\* Two pixel values that differ in every channel, alpha included.
GeomPalette == {<<255, 0, 0, 255>>, <<0, 64, 200, 128>>}

----------------------------------------------------------------------------
(* applyPerspectiveTransform (lines 137-193).                              *)

\* Lines 182-186: the four-texel weighted sum for channel c at (sx, sy).
BilinearSample(s, sx, sy, c) ==
    LET x0 == MathFloor(sx)
        y0 == MathFloor(sy)
        fx == RSub(sx, R(x0))
        fy == RSub(sy, R(y0))
        gx == RSub(R(1), fx)
        gy == RSub(R(1), fy)
        t(x, y, wx, wy) == RMul(RMul(R(PixelAt(s, x, y)[c]), wx), wy)
    IN  RAdd(RAdd(t(x0, y0, gx, gy), t(x0 + 1, y0, fx, gy)),
             RAdd(t(x0, y0 + 1, gx, fy), t(x0 + 1, y0 + 1, fx, fy)))

\* Line 166: sx >= 0 && sx < sw - 1 && sy >= 0 && sy < sh - 1 (false for NaN
\* and for an infinite coordinate).
SampleInside(s, pt) ==
    /\ pt # NotFinite
    /\ RLe(R(0), pt[1]) /\ RLt(pt[1], R(s.width - 1))
    /\ RLe(R(0), pt[2]) /\ RLt(pt[2], R(s.height - 1))

\* Lines 168-171 and 175-178: the positions of the four texels read for the
\* source coordinate (sx, sy).
Texels(sx, sy) ==
    {<<MathFloor(sx), MathFloor(sy)>>, <<MathFloor(sx) + 1, MathFloor(sy)>>,
     <<MathFloor(sx), MathFloor(sy) + 1>>, <<MathFloor(sx) + 1, MathFloor(sy) + 1>>}

\* applyPerspectiveTransform painting opaque black where nothing is sampled.
applyPerspectiveTransformOpaqueOutside(s, dw, dh, matrix) ==
    LET dstPixel(x, y) ==
            LET srcPt == transformPoint(matrix, x, y)
            IN  IF SampleInside(s, srcPt)
                THEN [c \in 1..4 |->
                        ToUint8Clamped(BilinearSample(s, srcPt[1], srcPt[2], c))]
                ELSE <<0, 0, 0, 255>>
    IN  [width |-> dw, height |-> dh,
         data |-> [i \in 1..(dw * dh) |-> dstPixel((i - 1) % dw, (i - 1) \div dw)]]

\* Lines 157-192: the destination image data after the loop over the pixels,
\* for the matrix of line 155.
applyPerspectiveTransform(s, dw, dh, matrix) ==
    LET dstPixel(x, y) ==
            LET srcPt == transformPoint(matrix, x, y)
            IN  IF SampleInside(s, srcPt)
                THEN [c \in 1..4 |->
                        ToUint8Clamped(BilinearSample(s, srcPt[1], srcPt[2], c))]
                ELSE TransparentBlack
    IN  [width |-> dw, height |-> dh,
         data |-> [i \in 1..(dw * dh) |-> dstPixel((i - 1) % dw, (i - 1) \div dw)]]

\* The destination corners tried for a source of sw x sh pixels: the source
\* rectangle itself, the rectangle moved one pixel right, the rectangle at
\* twice the size, and the rectangle with its far corner pulled out.
DstCornerSets(sw, sh) ==
    {Rect(sw, sh),
     Displace(Rect(sw, sh), [i \in 1..4 |-> <<1, 0>>]),
     Scale(Rect(sw, sh), 2),
     Displace(Rect(sw, sh), [i \in 1..4 |-> IF i = 3 THEN <<1, 1>> ELSE <<0, 0>>])}

InitResample ==
    /\ pc = "applyPerspectiveTransform"
    /\ src \in Buffers(MaxDim, MaxDim, GeomPalette)
    /\ \E dc \in DstCornerSets(src.width, src.height) : \E grow \in 0..1 :
          /\ args = [srcCorners |-> Rect(src.width, src.height), dstCorners |-> dc]
          /\ canvas = createImageData(src.width + grow, src.height + grow)
    /\ result = Null
    /\ filters = None
    /\ applied = <<>>
    /\ editor = None

CallApplyPerspectiveTransform ==
    /\ pc = "applyPerspectiveTransform"
    \* Line 155: the transform from destination back to source coordinates.
    /\ \E matrix \in {computePerspectiveTransform(args.dstCorners, args.srcCorners)} :
          canvas' = applyPerspectiveTransform(src, canvas.width, canvas.height, matrix)
    /\ pc' = "done"
    /\ UNCHANGED <<args, src, result, filters, applied, editor>>

NextResample == CallApplyPerspectiveTransform

SpecResample == InitResample /\ [][NextResample]_vars

\* The call was the identity call: srcCorners = dstCorners = the corners of the
\* source rectangle, destination of the size of the source.
IdentityResample ==
    /\ args.srcCorners = args.dstCorners
    /\ args.srcCorners = Rect(src.width, src.height)
    /\ canvas.width = src.width
    /\ canvas.height = src.height

\* C2: applyPerspectiveTransform with srcCorners = dstCorners and a destination
\* of the size of the source returns the input pixel for pixel, the last row
\* and the last column included.
C2_IdentityReturnsInput ==
    (pc = "done" /\ IdentityResample) => canvas.data = src.data

\* The source coordinate lies in [0, sw - 1) x [0, sh - 1).
InSampleRange(pt, sw, sh) ==
    /\ pt # NotFinite
    /\ ~RLt(pt[1], R(0)) /\ RLt(pt[1], R(sw - 1))
    /\ ~RLt(pt[2], R(0)) /\ RLt(pt[2], R(sh - 1))

\* C13: after applyPerspectiveTransform every destination pixel whose
\* inverse-mapped source coordinate lies outside [0, srcW-1) x [0, srcH-1) has
\* all four channels 0, and for every other pixel the four texels (x0, y0),
\* (x0+1, y0), (x0, y0+1), (x0+1, y0+1) lie inside the source buffer.
C13_OutsideStaysZeroInsideReadsInBounds ==
    pc = "done" =>
        \A matrix \in {computePerspectiveTransform(args.dstCorners, args.srcCorners)} :
            \A i \in 1..PixelCount(canvas) :
                \A pt \in {transformPoint(matrix, XOf(canvas, i), YOf(canvas, i))} :
                    IF InSampleRange(pt, src.width, src.height)
                    THEN \A tx \in Texels(pt[1], pt[2]) : InBuffer(src, tx[1], tx[2])
                    ELSE canvas.data[i] = TransparentBlack

\* A call that sampled one destination pixel between the texels and left
\* another one, mapped outside the source, untouched.
C13_Witness ==
    /\ pc = "done"
    /\ \E matrix \in {computePerspectiveTransform(args.dstCorners, args.srcCorners)} :
          \E i, j \in 1..PixelCount(canvas) :
             \E pi \in {transformPoint(matrix, XOf(canvas, i), YOf(canvas, i))} :
                \E pj \in {transformPoint(matrix, XOf(canvas, j), YOf(canvas, j))} :
                   /\ InSampleRange(pi, src.width, src.height)
                   /\ pi[1][2] # 1
                   /\ canvas.data[i] # TransparentBlack
                   /\ ~InSampleRange(pj, src.width, src.height)
                   /\ canvas.data[j] = TransparentBlack

----------------------------------------------------------------------------
(* applyWarpMesh (lines 1672-1744) and the default mesh of the editor       *)
(* (handleToggleWarpMesh / handleResetWarpMesh).  A mesh is                 *)
(* [rows, cols, points]; points[r * cols + c + 1] is the point <<x, y>> of  *)
(* grid position (r, c), with rational coordinates.                         *)

\* part_000 lines 1478-1486 (and 1461-1469 with rows = cols = 4): point (r, c)
\* at ((c / (cols - 1)) * w, (r / (rows - 1)) * h).
DefaultMesh(rows, cols, w, h) ==
    [rows |-> rows, cols |-> cols,
     points |-> [k \in 1..(rows * cols) |->
                    LET r == (k - 1) \div cols
                        c == (k - 1) % cols
                    IN  <<RMul(Rat(c, cols - 1), R(w)), RMul(Rat(r, rows - 1), R(h))>>]]

\* getPoint indexing the points column by column instead of row by row.
getPointTransposed(mesh, r, c) == mesh.points[c * mesh.rows + r + 1]

\* Lines 1689-1692.  Every index asked for is inside points (see the cell
\* clamp below), so the `||` fallback is never taken.
getPoint(mesh, r, c) == mesh.points[r * mesh.cols + c + 1]

\* Lines 1695-1705, as written: both y0 and y1 are weighted by ty.
bilinear(x, y, p00, p10, p01, p11) ==
    LET tx == x
        ty == y
        ux == RSub(R(1), tx)
        uy == RSub(R(1), ty)
        x0 == RAdd(RMul(p00[1], ux), RMul(p10[1], tx))
        x1 == RAdd(RMul(p01[1], ux), RMul(p11[1], tx))
        y0 == RAdd(RMul(p00[2], uy), RMul(p10[2], ty))
        y1 == RAdd(RMul(p01[2], uy), RMul(p11[2], ty))
    IN  <<RAdd(RMul(x0, uy), RMul(x1, ty)), RAdd(RMul(y0, uy), RMul(y1, ty))>>

\* Lines 1711-1714: the mesh cell <<ri, ci>> of destination pixel (dx, dy).
WarpCell(b, mesh, dx, dy) ==
    LET gx == RDiv(R(dx), Rat(b.width, mesh.cols - 1))
        gy == RDiv(R(dy), Rat(b.height, mesh.rows - 1))
    IN  <<Min(mesh.rows - 2, MathFloor(gy)), Min(mesh.cols - 2, MathFloor(gx))>>

\* Lines 1711-1727: the rounded source position <<sx, sy>> of pixel (dx, dy).
WarpSource(b, mesh, dx, dy) ==
    LET gx == RDiv(R(dx), Rat(b.width, mesh.cols - 1))
        gy == RDiv(R(dy), Rat(b.height, mesh.rows - 1))
        cell == WarpCell(b, mesh, dx, dy)
        ri == cell[1]
        ci == cell[2]
        fx == RSub(gx, R(ci))
        fy == RSub(gy, R(ri))
        srcPos == bilinear(fx, fy, getPoint(mesh, ri, ci), getPoint(mesh, ri, ci + 1),
                           getPoint(mesh, ri + 1, ci), getPoint(mesh, ri + 1, ci + 1))
    IN  <<MathRound(srcPos[1]), MathRound(srcPos[2])>>

\* applyWarpMesh sampling the nearest edge pixel for a position outside.
applyWarpMeshClampToEdge(b, mesh) ==
    [width |-> b.width, height |-> b.height,
     data |-> [i \in 1..(b.width * b.height) |->
                 LET sp == WarpSource(b, mesh, XOf(b, i), YOf(b, i))
                 IN  PixelAt(b, Max(0, Min(b.width - 1, sp[1])),
                             Max(0, Min(b.height - 1, sp[2])))]]

\* Lines 1672-1744: the returned canvas.
applyWarpMesh(b, mesh) ==
    [width |-> b.width, height |-> b.height,
     data |-> [i \in 1..(b.width * b.height) |->
                 LET sp == WarpSource(b, mesh, XOf(b, i), YOf(b, i))
                 IN  IF InBuffer(b, sp[1], sp[2])
                     THEN PixelAt(b, sp[1], sp[2])
                     ELSE TransparentBlack]]

MaxWarpDim == 4

MaxGrid == 4

\* The w x h buffer whose pixels all differ from each other in every channel.
TaggedBuffer(w, h) ==
    [width |-> w, height |-> h,
     data |-> [i \in 1..(w * h) |-> <<i, 100 + i, 200 + i, 255 - i>>]]

\* The meshes tried: the default grid, and the default grid with one of the
\* four points of its first cell moved by a whole pixel.
MovedMesh(mesh, k, e) ==
    [mesh EXCEPT !.points[k] = <<RAdd(@[1], R(e[1])), RAdd(@[2], R(e[2]))>>]

MeshesFor(rows, cols, w, h) ==
    {DefaultMesh(rows, cols, w, h)} \cup
    {MovedMesh(DefaultMesh(rows, cols, w, h), k, e) :
        k \in {1, 2, cols + 1, cols + 2}, e \in {<<1, 0>>, <<0, 1>>, <<-1, -1>>}}

InitWarp ==
    /\ pc = "applyWarpMesh"
    /\ \E w, h \in 1..MaxWarpDim : src = TaggedBuffer(w, h)
    /\ \E rows, cols \in 2..MaxGrid :
          \E mesh \in MeshesFor(rows, cols, src.width, src.height) :
              args = [mesh |-> mesh]
    /\ canvas = None
    /\ result = Null
    /\ filters = None
    /\ applied = <<>>
    /\ editor = None

CallApplyWarpMesh ==
    /\ pc = "applyWarpMesh"
    /\ canvas' = applyWarpMesh(src, args.mesh)
    /\ pc' = "done"
    /\ UNCHANGED <<args, src, result, filters, applied, editor>>

NextWarp == CallApplyWarpMesh

SpecWarp == InitWarp /\ [][NextWarp]_vars

IsDefaultMesh(mesh, w, h) == mesh = DefaultMesh(mesh.rows, mesh.cols, w, h)

\* C3: applyWarpMesh with a mesh at exactly the default uniform grid returns the
\* input: every output pixel equals the source pixel at the same position in
\* all four channels, for every rows >= 2 and cols >= 2.
C3_DefaultMeshIsIdentity ==
    (pc = "done" /\ IsDefaultMesh(args.mesh, src.width, src.height)) =>
        /\ canvas.width = src.width
        /\ canvas.height = src.height
        /\ \A i \in 1..(src.width * src.height) : canvas.data[i] = src.data[i]

\* A default mesh with different numbers of rows and columns has been applied
\* to a buffer that is wider than one cell and not square.
C3_Witness ==
    /\ pc = "done"
    /\ IsDefaultMesh(args.mesh, src.width, src.height)
    /\ args.mesh.rows = 2
    /\ args.mesh.cols = 3
    /\ src.width = 4
    /\ src.height = 3
    /\ canvas.data = src.data

\* C21: for every mesh with rows >= 2 and cols >= 2 and every destination
\* pixel, the cell located has 0 <= row <= rows - 2 and 0 <= col <= cols - 2,
\* and the output pixel is the copy, in all four channels, of the source pixel
\* at the rounded interpolated coordinate, or fully transparent when that
\* coordinate is outside the source buffer.
C21_WarpCopiesOrClears ==
    pc = "done" =>
        \A i \in 1..PixelCount(src) :
            /\ WarpCell(src, args.mesh, XOf(src, i), YOf(src, i))[1] \in 0..(args.mesh.rows - 2)
            /\ WarpCell(src, args.mesh, XOf(src, i), YOf(src, i))[2] \in 0..(args.mesh.cols - 2)
            /\ \A sp \in {WarpSource(src, args.mesh, XOf(src, i), YOf(src, i))} :
                  IF sp[1] >= 0 /\ sp[1] < src.width /\ sp[2] >= 0 /\ sp[2] < src.height
                  THEN canvas.data[i] = src.data[sp[2] * src.width + sp[1] + 1]
                  ELSE canvas.data[i] = <<0, 0, 0, 0>>

\* A moved mesh has sent one pixel outside the source, which came out
\* transparent, and has fetched another pixel from a different position.
C21_Witness ==
    /\ pc = "done"
    /\ ~IsDefaultMesh(args.mesh, src.width, src.height)
    /\ \E i, j \in 1..PixelCount(src) :
          /\ ~InBuffer(src, WarpSource(src, args.mesh, XOf(src, i), YOf(src, i))[1],
                        WarpSource(src, args.mesh, XOf(src, i), YOf(src, i))[2])
          /\ canvas.data[i] = <<0, 0, 0, 0>>
          /\ canvas.data[j] \notin {src.data[j], <<0, 0, 0, 0>>}

----------------------------------------------------------------------------
(* applyGradientFade (lines 1602-1630).                                    *)

\* The largest k in lo..hi with k * k <= n.
RECURSIVE ISqrtBetween(_, _, _)
ISqrtBetween(n, lo, hi) ==
    IF lo >= hi THEN lo
    ELSE LET mid == (lo + hi + 1) \div 2
         IN  IF mid * mid <= n THEN ISqrtBetween(n, mid, hi)
             ELSE ISqrtBetween(n, lo, mid - 1)

\* Math.sqrt of a rational in [0, 4], to three decimals (rounded down).
SqrtMilli(p) == Rat(ISqrtBetween((p[1] * 1000000) \div p[2], 0, 2000), 1000)

\* Lines 1611-1623: the gradient position t of pixel (x, y).
FadePosition(direction, x, y, w, h) ==
    CASE direction = 0 -> Rat(x, w)
      [] direction = 1 -> RSub(R(1), Rat(x, w))
      [] direction = 2 -> Rat(y, h)
      [] direction = 3 -> RSub(R(1), Rat(y, h))
      [] direction = 4 ->
            LET dx == RMul(RSub(Rat(x, w), Rat(1, 2)), R(2))
                dy == RMul(RSub(Rat(y, h), Rat(1, 2)), R(2))
            IN  RDiv(SqrtMilli(RAdd(RMul(dx, dx), RMul(dy, dy))), Rat(1414, 1000))
      [] OTHER -> R(0)

\* Lines 1625-1626: the alpha written for a pixel of alpha a at position t.
FadedAlpha(a, t, amount) ==
    LET strength == Rat(amount, 100)
        fade == RSub(R(1), RMul(t, strength))
        kept == IF RLt(fade, R(0)) THEN R(0) ELSE fade
    IN  MathRound(RMul(R(a), kept))

\* Lines 1602-1630.
applyGradientFade(b, direction, amount) ==
    [b EXCEPT !.data =
        [i \in 1..(b.width * b.height) |->
            LET t == FadePosition(direction, XOf(b, i), YOf(b, i), b.width, b.height)
            IN  <<b.data[i][1], b.data[i][2], b.data[i][3],
                  FadedAlpha(b.data[i][4], t, amount)>>]]

MaxFadeWidth == 4

FadePalette == {<<255, 0, 0, 255>>, <<0, 64, 200, 100>>}

FadeAmounts == {25, 50, 100}

InitFade ==
    /\ pc = "applyGradientFade"
    /\ src \in Buffers(MaxFadeWidth, 2, FadePalette)
    /\ canvas = src
    /\ \E direction \in 0..4 : \E amount \in FadeAmounts :
          args = [direction |-> direction, amount |-> amount]
    /\ result = Null
    /\ filters = None
    /\ applied = <<>>
    /\ editor = None

CallApplyGradientFade ==
    /\ pc = "applyGradientFade"
    /\ canvas' = applyGradientFade(canvas, args.direction, args.amount)
    /\ pc' = "done"
    /\ UNCHANGED <<args, src, result, filters, applied, editor>>

NextFade == CallApplyGradientFade

SpecFade == InitFade /\ [][NextFade]_vars

FullyOpaque(b) == \A i \in 1..(b.width * b.height) : b.data[i][4] = 255

\* C8: applyGradientFade with direction = 0 and amount = 100 on a fully opaque
\* buffer leaves the alpha of the leftmost column at 255 and sets the alpha of
\* the rightmost column to 0 (stated for buffers at least two pixels wide, where
\* the two columns differ).
C8_FadeRightReachesZero ==
    (pc = "done" /\ args.direction = 0 /\ args.amount = 100
        /\ FullyOpaque(src) /\ src.width >= 2) =>
        \A y \in 0..(src.height - 1) :
            /\ PixelAt(canvas, 0, y)[4] = 255
            /\ PixelAt(canvas, src.width - 1, y)[4] = 0

----------------------------------------------------------------------------
(* applyStroke (lines 855-953).  The stroke colour is the triple            *)
(* <<cr, cg, cb>> that lines 863-865 parse from the '#rrggbb' string.       *)

\* Line 871: alpha[i] = data[i * 4 + 3] > 128 ? 1 : 0.
alphaMask(b) == [i \in 1..PixelCount(b) |-> IF b.data[i][4] > 128 THEN 1 ELSE 0]

\* Lines 872 and 886-888: pixel i is off the outermost row and column.
Interior(b, i) ==
    /\ XOf(b, i) > 0 /\ XOf(b, i) < b.width - 1
    /\ YOf(b, i) > 0 /\ YOf(b, i) < b.height - 1

\* Lines 869-875.
hasTransparency(b) ==
    \E i \in 1..PixelCount(b) : alphaMask(b)[i] = 0 /\ Interior(b, i)

\* Line 915 with the bounds test of line 917: the 4-neighbours inside the buffer.
Neighbours4(b, i) ==
    {j \in 1..PixelCount(b) :
        Abs(XOf(b, j) - XOf(b, i)) + Abs(YOf(b, j) - YOf(b, i)) = 1}

\* Lines 884-900: the edge maps, as the sets of pixels marked 1.
innerEdge(b) ==
    {i \in 1..PixelCount(b) :
        /\ Interior(b, i)
        /\ alphaMask(b)[i] = 1
        /\ \E n \in Neighbours4(b, i) : alphaMask(b)[n] = 0}

outerEdge(b) ==
    {i \in 1..PixelCount(b) :
        /\ Interior(b, i)
        /\ alphaMask(b)[i] = 0
        /\ \E n \in Neighbours4(b, i) : alphaMask(b)[n] = 1}

\* Lines 910-930: `rounds` rounds of frontier expansion into pixels whose mask
\* value is matchVal, stopping when the frontier is empty.
RECURSIVE DilateFrom(_, _, _, _, _, _)
DilateFrom(b, reached, frontier, mask, matchVal, rounds) ==
    IF rounds <= 0 \/ frontier = {} THEN reached
    ELSE LET newFrontier ==
                 {n \in UNION {Neighbours4(b, f) : f \in frontier} :
                     n \notin reached /\ mask[n] = matchVal}
         IN  DilateFrom(b, reached \cup newFrontier, newFrontier, mask, matchVal,
                        rounds - 1)

\* dilate with the loop running while step <= width.
dilateOneRoundMore(b, edge, mask, matchVal, width) ==
    DilateFrom(b, edge, edge, mask, matchVal, width)

\* Lines 903-932: for (step = 1; step < width; step++).
dilate(b, edge, mask, matchVal, width) ==
    DilateFrom(b, edge, edge, mask, matchVal, width - 1)

\* ctx.strokeRect(rx, ry, rw, rh) with lineWidth lw (lines 878-879, the canvas
\* 2D API): whether the stroke covers the pixel square [x, x+1] x [y, y+1].
\* All coordinates are integers and lw is even, so a pixel is covered wholly
\* or not at all.  Nothing is drawn for rw = rh = 0; a rectangle with one zero
\* side is a line with butt caps.
StrokeRectCovers(x, y, rx, ry, rw, rh, lw) ==
    LET x0 == Min(rx, rx + rw)
        x1 == Max(rx, rx + rw)
        y0 == Min(ry, ry + rh)
        y1 == Max(ry, ry + rh)
        hw == lw \div 2
        inOuter == x >= x0 - hw /\ x + 1 <= x1 + hw /\ y >= y0 - hw /\ y + 1 <= y1 + hw
        inHole == x >= x0 + hw /\ x + 1 <= x1 - hw /\ y >= y0 + hw /\ y + 1 <= y1 - hw
    IN  IF rw = 0 /\ rh = 0 THEN FALSE
        ELSE IF rw = 0 THEN x >= x0 - hw /\ x + 1 <= x0 + hw /\ y >= y0 /\ y + 1 <= y1
        ELSE IF rh = 0 THEN y >= y0 - hw /\ y + 1 <= y0 + hw /\ x >= x0 /\ x + 1 <= x1
        ELSE inOuter /\ ~inHole

\* Lines 877-881: the rectangle outline drawn when hasTransparency is false.
StrokeRectangle(b, color, width, inner, outer) ==
    LET w == b.width
        h == b.height
        painted(i) ==
            \/ outer /\ StrokeRectCovers(XOf(b, i), YOf(b, i), -width, -width,
                                          w + width * 2, h + width * 2, width * 2)
            \/ inner /\ StrokeRectCovers(XOf(b, i), YOf(b, i), width, width,
                                          w - width * 2, h - width * 2, width * 2)
    IN  [b EXCEPT !.data =
            [i \in 1..PixelCount(b) |->
                IF painted(i) THEN <<color[1], color[2], color[3], 255>> ELSE b.data[i]]]

\* Lines 934-952: the per-pixel outer and inner strokes.
StrokeEdges(b, color, width, inner, outer) ==
    LET alpha == alphaMask(b)
        outerSet == IF ~outer THEN {}
                    ELSE IF width > 1 THEN dilate(b, outerEdge(b), alpha, 0, width)
                    ELSE outerEdge(b)
        innerSet == IF ~inner THEN {}
                    ELSE IF width > 1 THEN dilate(b, innerEdge(b), alpha, 1, width)
                    ELSE innerEdge(b)
    IN  [b EXCEPT !.data =
            [i \in 1..PixelCount(b) |->
                IF i \in innerSet /\ alpha[i] = 1
                THEN <<color[1], color[2], color[3], b.data[i][4]>>
                ELSE IF i \in outerSet /\ alpha[i] = 0
                THEN <<color[1], color[2], color[3], 255>>
                ELSE b.data[i]]]

\* Lines 855-953.
applyStroke(b, color, width, inner, outer) ==
    IF ~hasTransparency(b)
    THEN StrokeRectangle(b, color, width, inner, outer)
    ELSE StrokeEdges(b, color, width, inner, outer)

MaxStrokeWidth == 3

OpaquePixel == <<10, 20, 30, 255>>

\* A pixel at the mask threshold: alpha 128 is not above 128.
ThresholdPixel == <<40, 50, 60, 128>>

StrokeColor == <<200, 50, 0>>

\* Every w x h buffer of opaque and transparent pixels.
MaskBuffers(w, h) ==
    {[width |-> w, height |-> h, data |-> d] :
        d \in [1..(w * h) -> {OpaquePixel, TransparentBlack}]}

\* The 5 x 5 buffers with one rectangular block of `inside` pixels in a field
\* of `outside` pixels.
BlockBuffers(inside, outside) ==
    {[width |-> 5, height |-> 5,
      data |-> [i \in 1..25 |->
                  IF /\ (i - 1) % 5 \in xa..xb
                     /\ (i - 1) \div 5 \in ya..yb
                  THEN inside ELSE outside]] :
        xa \in 0..4, xb \in 0..4, ya \in 0..4, yb \in 0..4}

StrokeBuffers ==
    MaskBuffers(3, 3) \cup MaskBuffers(4, 3)
        \cup BlockBuffers(OpaquePixel, TransparentBlack)
        \cup BlockBuffers(ThresholdPixel, OpaquePixel)

InitStroke ==
    /\ pc = "applyStroke"
    /\ src \in StrokeBuffers
    /\ canvas = src
    /\ \E width \in 1..MaxStrokeWidth : \E inner, outer \in BOOLEAN :
          args = [color |-> StrokeColor, width |-> width, inner |-> inner,
                  outer |-> outer]
    /\ result = Null
    /\ filters = None
    /\ applied = <<>>
    /\ editor = None

CallApplyStroke ==
    /\ pc = "applyStroke"
    /\ canvas' = applyStroke(canvas, args.color, args.width, args.inner, args.outer)
    /\ pc' = "done"
    /\ UNCHANGED <<args, src, result, filters, applied, editor>>

NextStroke == CallApplyStroke

SpecStroke == InitStroke /\ [][NextStroke]_vars

\* Transparent for the stroke: alpha not above 128.
IsOpaque(b, i) == b.data[i][4] > 128

\* 4-connected graph distance between two pixels of the grid.
GridDistance(b, i, j) == Abs(XOf(b, i) - XOf(b, j)) + Abs(YOf(b, i) - YOf(b, j))

\* C7 (stroke containment): after applyStroke with outer = true, inner = false on
\* a buffer that contains transparency, every pixel whose colour or alpha
\* changed was transparent in the input and lies within `width` 4-connected
\* steps of an opaque pixel; no pixel that was opaque has any channel changed.
C7_StrokeContainment ==
    (pc = "done" /\ args.outer /\ ~args.inner
        /\ \E i \in 1..PixelCount(src) : ~IsOpaque(src, i)) =>
        \A i \in 1..PixelCount(src) :
            /\ IsOpaque(src, i) => canvas.data[i] = src.data[i]
            /\ canvas.data[i] # src.data[i] =>
                  /\ ~IsOpaque(src, i)
                  /\ \E j \in 1..PixelCount(src) :
                        IsOpaque(src, j) /\ GridDistance(src, i, j) <= args.width

\* An outer stroke of width 2 or more has coloured a transparent pixel whose
\* nearest opaque pixel is exactly `width` steps away.
C7_Witness ==
    /\ pc = "done"
    /\ args.outer /\ ~args.inner /\ args.width >= 2
    /\ \E i \in 1..PixelCount(src) :
          /\ ~IsOpaque(src, i)
          /\ canvas.data[i] = <<StrokeColor[1], StrokeColor[2], StrokeColor[3], 255>>
          /\ \A j \in 1..PixelCount(src) :
                IsOpaque(src, j) => GridDistance(src, i, j) >= args.width

\* C20: applyStroke takes the rectangle-outline fast path if and only if the
\* source has no transparent pixel (alpha <= 128) at all; with a transparent
\* pixel anywhere, the outermost row and column included, the per-pixel
\* algorithm produces the result.
C20_FastPathIffNoTransparency ==
    pc = "done" =>
        IF \A i \in 1..PixelCount(src) : IsOpaque(src, i)
        THEN /\ ~hasTransparency(src)
             /\ canvas = StrokeRectangle(src, args.color, args.width, args.inner, args.outer)
        ELSE /\ hasTransparency(src)
             /\ canvas = StrokeEdges(src, args.color, args.width, args.inner, args.outer)

----------------------------------------------------------------------------
(* applyNewBlur (lines 278-405): the two blur types that the function       *)
(* computes itself, byte by byte.  Motion (3) and radial (4) blur are drawn  *)
(* by the canvas (drawImage under globalAlpha).                              *)

RECURSIVE SumSeq(_)
SumSeq(s) == IF s = <<>> THEN 0 ELSE Head(s) + SumSeq(Tail(s))

\* Math.exp(-n / 8) for n = 0..36, in units of 10^-5.
ExpNegEighths ==
    <<100000, 88250, 77880, 68729, 60653, 53526, 47237, 41686, 36788, 32465,
      28650, 25284, 22313, 19691, 17377, 15335, 13534, 11943, 10540, 9301,
      8208, 7244, 6393, 5642, 4979, 4394, 3877, 3422, 3020, 2665, 2352, 2075,
      1832, 1616, 1426, 1259, 1111>>

\* Line 285: r = Math.ceil(radius * 2.5).
GaussianReach(radius) == MathCeil(Rat(radius * 5, 2))

\* Lines 287-294: kernel[i] = Math.exp(-(x * x) / (2 * sigma * sigma)), x = i - r,
\* before the division by the sum.  For sigma 1 and 2 the exponent is a whole
\* number of eighths.
GaussianKernel(radius) ==
    LET r == GaussianReach(radius)
    IN  [k \in 1..(2 * r + 1) |->
            ExpNegEighths[(4 * (k - 1 - r) * (k - 1 - r)) \div (radius * radius) + 1]]

\* Lines 306 and 324: Math.min(n - 1, Math.max(0, v)).
ClampIndex(v, n) == Min(n - 1, Max(0, v))

\* Lines 304-315 and 322-333: one Gaussian pass over all four channels, along
\* x (horizontal = TRUE) or along y, each sum stored into a Uint8ClampedArray.
\* Line 295 divides each kernel entry by the kernel's sum.
GaussianPass(b, radius, horizontal) ==
    LET r == GaussianReach(radius)
        kernel == GaussianKernel(radius)
        total == SumSeq(kernel)
        tap(i, k) == IF horizontal
                     THEN PixelAt(b, ClampIndex(XOf(b, i) + k - 1 - r, b.width), YOf(b, i))
                     ELSE PixelAt(b, XOf(b, i), ClampIndex(YOf(b, i) + k - 1 - r, b.height))
        channel(i, ch) ==
            ToUint8Clamped(
                Rat(SumSeq([k \in 1..(2 * r + 1) |-> tap(i, k)[ch] * kernel[k]]), total))
    IN  [b EXCEPT !.data =
            [i \in 1..PixelCount(b) |-> [ch \in 1..4 |-> channel(i, ch)]]]

\* Lines 284-338.
GaussianBlur(b, radius) == GaussianPass(GaussianPass(b, radius, TRUE), radius, FALSE)

\* Lines 345-356 and 359-370: one box pass; the three colour bytes become the
\* mean over the 2r + 1 clamped taps, the alpha byte is not written.
BoxPass(b, r, horizontal) ==
    LET tap(i, d) == IF horizontal
                     THEN PixelAt(b, ClampIndex(XOf(b, i) + d, b.width), YOf(b, i))
                     ELSE PixelAt(b, XOf(b, i), ClampIndex(YOf(b, i) + d, b.height))
        mean(i, ch) ==
            ToUint8Clamped(
                Rat(SumSeq([k \in 1..(2 * r + 1) |-> tap(i, k - 1 - r)[ch]]), 2 * r + 1))
    IN  [b EXCEPT !.data =
            [i \in 1..PixelCount(b) |->
                <<mean(i, 1), mean(i, 2), mean(i, 3), b.data[i][4]>>]]

\* Lines 339-373: r = Math.round(radius).
BoxBlur(b, radius) ==
    LET r == MathRound(R(radius))
    IN  BoxPass(BoxPass(b, r, TRUE), r, FALSE)

\* Lines 278-405, types 0, 1 and 2.
applyNewBlur(b, type, radius) ==
    IF radius <= 0 \/ type = 0 THEN b
    ELSE IF type = 1 THEN GaussianBlur(b, radius)
    ELSE IF type = 2 THEN BoxBlur(b, radius)
    ELSE b

MaxBlurDim == 2

BlurTypes == {1, 2}

BlurRadii == {1, 2}

InitBlur ==
    /\ pc = "applyNewBlur"
    /\ src \in Buffers(MaxBlurDim, MaxBlurDim, GeomPalette)
    /\ canvas = src
    /\ \E type \in BlurTypes : \E radius \in BlurRadii :
          args = [type |-> type, radius |-> radius]
    /\ result = Null
    /\ filters = None
    /\ applied = <<>>
    /\ editor = None

CallApplyNewBlur ==
    /\ pc = "applyNewBlur"
    /\ canvas' = applyNewBlur(canvas, args.type, args.radius)
    /\ pc' = "done"
    /\ UNCHANGED <<args, src, result, filters, applied, editor>>

NextBlur == CallApplyNewBlur

SpecBlur == InitBlur /\ [][NextBlur]_vars

SameAlpha(a, b) == \A i \in 1..PixelCount(a) : a.data[i][4] = b.data[i][4]

\* C5 (blur preserves alpha): after a blur of any type with radius > 0, on any
\* buffer, the alpha of every output pixel equals the alpha of the same input
\* pixel.
C5_BlurPreservesAlpha ==
    (pc = "done" /\ args.radius > 0) => SameAlpha(canvas, src)

\* The same statement for the box blur alone, which never writes the alpha byte.
BoxBlurPreservesAlpha ==
    (pc = "done" /\ args.type = 2) => SameAlpha(canvas, src)

----------------------------------------------------------------------------
(* Motion blur: case 3 of applyNewBlur (lines 374-389), one loop iteration  *)
(* per step.  The radius is a rational and the angle is 0 or 90 degrees, so *)
(* that cos and sin are 1 or 0.  `result` is [mSteps, i], the step count    *)
(* and the loop counter; `applied` is the sequence of drawImage calls made, *)
(* each [alpha, t, at]: globalAlpha, the offset t and the position           *)
(* <<t * mdx, t * mdy>> the copy of the original is drawn at.                *)

MaxMotionRadius == 25

MotionRadii == {Rat(1, 5), Rat(1, 2), Rat(5, 2)} \cup {R(n) : n \in 1..MaxMotionRadius}

\* Line 378.
MotionSteps(radius) == Min(MathRound(RMul(radius, R(2))), 40)

\* Lines 379 and 383: t = (i / mSteps - 0.5) * radius * (stepScale / radius || 1),
\* stepScale = radius * 2 / mSteps; the quotient stepScale / radius is 2 / mSteps,
\* never 0 nor NaN for a radius above 0 and mSteps >= 1.
MotionOffset(radius, mSteps, i) ==
    RMul(RMul(RSub(Rat(i, mSteps), Rat(1, 2)), radius),
         RDiv(RDiv(RMul(radius, R(2)), R(mSteps)), radius))

\* Lines 376-377 for the two angles of the model.
MotionDirection(angle) == IF angle = 0 THEN <<1, 0>> ELSE <<0, 1>>

InitMotion ==
    /\ pc = "motionBlur"
    /\ \E radius \in MotionRadii : \E angle \in {0, 90} :
          args = [type |-> 3, radius |-> radius, angle |-> angle]
    /\ src = None
    /\ canvas = None
    /\ result = Null
    /\ filters = None
    /\ applied = <<>>
    /\ editor = None

\* Lines 375-381: the step count, the copy of the original, clearRect.
MotionBegin ==
    /\ pc = "motionBlur"
    /\ result' = [mSteps |-> MotionSteps(args.radius), i |-> 0]
    /\ pc' = "motionLoop"
    /\ UNCHANGED <<args, src, canvas, filters, applied, editor>>

\* Lines 382-386: one iteration of the loop.
MotionStep ==
    /\ pc = "motionLoop"
    /\ result.i < result.mSteps
    /\ \E t \in {MotionOffset(args.radius, result.mSteps, result.i)} :
          applied' = Append(applied,
                            [alpha |-> Rat(1, result.mSteps), t |-> t,
                             at |-> <<RMul(t, R(MotionDirection(args.angle)[1])),
                                      RMul(t, R(MotionDirection(args.angle)[2]))>>])
    /\ result' = [result EXCEPT !.i = @ + 1]
    /\ UNCHANGED <<pc, args, src, canvas, filters, editor>>

\* Lines 382 and 387: the loop ends, globalAlpha goes back to 1.
MotionEnd ==
    /\ pc = "motionLoop"
    /\ result.i >= result.mSteps
    /\ pc' = "done"
    /\ UNCHANGED <<args, src, canvas, result, filters, applied, editor>>

NextMotion == MotionBegin \/ MotionStep \/ MotionEnd

SpecMotion == InitMotion /\ [][NextMotion]_vars

\* C22: motion blur with radius > 0 performs N = min(round(radius * 2), 40)
\* accumulation steps, each at opacity 1 / N, whose offsets t along the angle
\* direction span the interval [-radius / 2, radius / 2]: they start at
\* -radius / 2 and stay within the interval.
C22_MotionStepsSpanRadius ==
    (pc = "done" /\ MotionSteps(args.radius) >= 1) =>
        /\ Len(applied) = MotionSteps(args.radius)
        /\ \A k \in 1..Len(applied) :
              /\ applied[k].alpha = Rat(1, MotionSteps(args.radius))
              /\ RLe(RNeg(RDiv(args.radius, R(2))), applied[k].t)
              /\ RLe(applied[k].t, RDiv(args.radius, R(2)))
        /\ applied[1].t = RNeg(RDiv(args.radius, R(2)))

----------------------------------------------------------------------------
(* The per-pixel colour filters.  A filter reads the bytes of getImageData   *)
(* and stores numbers into the Uint8ClampedArray that putImageData writes    *)
(* back.                                                                     *)

\* Math.max(lo, Math.min(hi, p)) on rationals.
RClamp(p, lo, hi) == IF RLt(p, R(lo)) THEN R(lo) ELSE IF RLt(R(hi), p) THEN R(hi) ELSE p

\* p to the power n, n a natural number.
RECURSIVE RPow(_, _)
RPow(p, n) == IF n = 0 THEN R(1) ELSE RMul(p, RPow(p, n - 1))

\* r * 0.299 + g * 0.587 + b * 0.114.
Luma(px) == Rat(299 * px[1] + 587 * px[2] + 114 * px[3], 1000)

\* applyBrightnessContrast taking the brightness as a percentage of 255.
applyBrightnessContrastPercent(b, brightness, contrast) ==
    LET f == Rat(259 * (contrast + 255), 255 * (259 - contrast))
        ch(v) == ToUint8Clamped(
                     RClamp(RAdd(RMul(f, R(v - 128)), RAdd(R(128), Rat(brightness * 255, 100))),
                            0, 255))
    IN  [b EXCEPT !.data =
            [i \in 1..PixelCount(b) |->
                <<ch(b.data[i][1]), ch(b.data[i][2]), ch(b.data[i][3]), b.data[i][4]>>]]

\* Lines 260-271: the three colour bytes are rewritten, the alpha byte is not.
applyBrightnessContrast(b, brightness, contrast) ==
    LET f == Rat(259 * (contrast + 255), 255 * (259 - contrast))
        ch(v) == ToUint8Clamped(
                     RClamp(RAdd(RMul(f, R(v - 128)), R(128 + brightness)), 0, 255))
    IN  [b EXCEPT !.data =
            [i \in 1..PixelCount(b) |->
                <<ch(b.data[i][1]), ch(b.data[i][2]), ch(b.data[i][3]), b.data[i][4]>>]]

\* applyPosterize with the quotient truncated instead of rounded.
applyPosterizeFloor(b, levels) ==
    LET step == Rat(255, levels - 1)
        ch(v) == IF levels = 1 THEN 0
                 ELSE ToUint8Clamped(
                          R(MathRound(RMul(R(MathFloor(RDiv(R(v), step))), step))))
    IN  [b EXCEPT !.data =
            [i \in 1..PixelCount(b) |->
                <<ch(b.data[i][1]), ch(b.data[i][2]), ch(b.data[i][3]), b.data[i][4]>>]]

\* Lines 478-488.  With levels = 1 the step is Infinity, each product is NaN
\* and the byte stored is 0.
applyPosterize(b, levels) ==
    LET step == Rat(255, levels - 1)
        ch(v) == IF levels = 1 THEN 0
                 ELSE ToUint8Clamped(
                          R(MathRound(RMul(R(MathRound(RDiv(R(v), step))), step))))
    IN  [b EXCEPT !.data =
            [i \in 1..PixelCount(b) |->
                <<ch(b.data[i][1]), ch(b.data[i][2]), ch(b.data[i][3]), b.data[i][4]>>]]

\* applyInvert subtracting from 256.
applyInvertFrom256(b) ==
    [b EXCEPT !.data =
        [i \in 1..PixelCount(b) |->
            <<ToUint8Clamped(R(256 - b.data[i][1])), ToUint8Clamped(R(256 - b.data[i][2])),
              ToUint8Clamped(R(256 - b.data[i][3])), b.data[i][4]>>]]

\* applyInvert that also inverts the alpha byte.
applyInvertAllChannels(b) ==
    [b EXCEPT !.data =
        [i \in 1..PixelCount(b) |-> [ch \in 1..4 |-> 255 - b.data[i][ch]]]]

\* Lines 493-502.
applyInvert(b) ==
    [b EXCEPT !.data =
        [i \in 1..PixelCount(b) |->
            <<255 - b.data[i][1], 255 - b.data[i][2], 255 - b.data[i][3],
              b.data[i][4]>>]]

\* Lines 628-651.  gamma is 1 / n for a natural number n >= 1, so that
\* Math.pow(v, 1 / gamma) is v to the n-th power.
applyLevels(b, black, white, gamma, mono) ==
    LET range == Max(1, white - black)
        lut(i) == MathRound(RMul(RPow(RClamp(Rat(i - black, range), 0, 1), gamma[2]),
                                 R(255)))
        gray(px) == MathRound(Luma(px))
    IN  [b EXCEPT !.data =
            [i \in 1..PixelCount(b) |->
                IF mono
                THEN <<lut(gray(b.data[i])), lut(gray(b.data[i])), lut(gray(b.data[i])),
                       b.data[i][4]>>
                ELSE <<lut(b.data[i][1]), lut(b.data[i][2]), lut(b.data[i][3]),
                       b.data[i][4]>>]]

\* Line 226: Math.max and Math.min of three numbers.
RMax3(r, g, b) == IF RLt(r, g) THEN (IF RLt(g, b) THEN b ELSE g) ELSE (IF RLt(r, b) THEN b ELSE r)
RMin3(r, g, b) == IF RLt(g, r) THEN (IF RLt(b, g) THEN b ELSE g) ELSE (IF RLt(b, r) THEN b ELSE r)

\* +Infinity, the quotient of a positive number by 0.
Infinity == <<1, 0>>

\* Lines 227-231: the saturation, from max, min and l.  For channels above
\* 255 (applyPosterizeStyle passes such) max + min can be 2 and the quotient
\* infinite.
HslSaturation(hi, lo, l) ==
    IF hi = lo THEN R(0)
    ELSE IF RLt(Rat(1, 2), l)
         THEN (IF RAdd(hi, lo) = R(2) THEN Infinity
               ELSE RDiv(RSub(hi, lo), RSub(R(2), RAdd(hi, lo))))
    ELSE RDiv(RSub(hi, lo), RAdd(hi, lo))

\* Lines 227-235: the hue as a fraction of the circle, d being max - min.
HslHue(r, g, b, hi, d) ==
    IF d = R(0) THEN R(0)
    ELSE IF hi = r THEN RDiv(RAdd(RDiv(RSub(g, b), d), R(IF RLt(g, b) THEN 6 ELSE 0)), R(6))
    ELSE IF hi = g THEN RDiv(RAdd(RDiv(RSub(b, r), d), R(2)), R(6))
    ELSE RDiv(RAdd(RDiv(RSub(r, g), d), R(4)), R(6))

\* Lines 226-236, for the channels already divided by 255.
HslOfRange(r, g, b, hi, lo) ==
    <<RMul(HslHue(r, g, b, hi, RSub(hi, lo)), R(360)),
      HslSaturation(hi, lo, RDiv(RAdd(hi, lo), R(2))),
      RDiv(RAdd(hi, lo), R(2))>>
HslOfUnit(r, g, b) == HslOfRange(r, g, b, RMax3(r, g, b), RMin3(r, g, b))

\* Lines 224-237, on rationals; the result is <<h in degrees, s, l>>.
rgbToHsl(r0, g0, b0) == HslOfUnit(RDiv(r0, R(255)), RDiv(g0, R(255)), RDiv(b0, R(255)))

\* Line 244: t brought back into [0, 1].
WrapUp(t) == IF RLt(t, R(0)) THEN RAdd(t, R(1)) ELSE t
WrapDown(t) == IF RLt(R(1), t) THEN RSub(t, R(1)) ELSE t

\* Lines 245-248.
HueRamp(p, q, t) ==
    IF RLt(t, Rat(1, 6)) THEN RAdd(p, RMul(RMul(RSub(q, p), R(6)), t))
    ELSE IF RLt(t, Rat(1, 2)) THEN q
    ELSE IF RLt(t, Rat(2, 3)) THEN RAdd(p, RMul(RMul(RSub(q, p), RSub(Rat(2, 3), t)), R(6)))
    ELSE p

\* Lines 243-249.
hue2rgb(p, q, t) == HueRamp(p, q, WrapDown(WrapUp(t)))

\* Lines 252-256: the three channels, h being a fraction of the circle.
HslChannels(h, p, q) ==
    <<MathRound(RMul(hue2rgb(p, q, RAdd(h, Rat(1, 3))), R(255))),
      MathRound(RMul(hue2rgb(p, q, h), R(255))),
      MathRound(RMul(hue2rgb(p, q, RSub(h, Rat(1, 3))), R(255)))>>

\* Line 251: p from l and q.
HslChroma(h, l, q) == HslChannels(h, RSub(RMul(R(2), l), q), q)

\* Line 242: the grey of a colour without saturation.
Grey(v) == <<v, v, v>>

\* Lines 239-257; the result is the three rounded colour values.
hslToRgb(h0, s, l) ==
    IF s = R(0) THEN Grey(MathRound(RMul(l, R(255))))
    ELSE HslChroma(RDiv(RSub(h0, R(360 * MathFloor(RDiv(h0, R(360))))), R(360)), l,
                   IF RLt(l, Rat(1, 2)) THEN RMul(l, RAdd(R(1), s))
                   ELSE RSub(RAdd(l, s), RMul(l, s)))

\* Lines 762-764: the shifted hue and saturation, converted back.
ShiftHsl(hsl, hueShift, sF) ==
    hslToRgb(RAdd(hsl[1], R(hueShift)), RClamp(RMul(hsl[2], sF), 0, 1), hsl[3])

\* Line 765: the colour channels stored into the pixel.
StoreRgb(px, rgb) ==
    <<ToUint8Clamped(R(rgb[1])), ToUint8Clamped(R(rgb[2])), ToUint8Clamped(R(rgb[3])), px[4]>>

\* Lines 754-765 for one pixel; warm is tempShift * 0.8.
HueSatTempPixel(px, hueShift, sF, tempShift, warm) ==
    StoreRgb(px, ShiftHsl(rgbToHsl(IF tempShift # 0 THEN RClamp(RAdd(R(px[1]), warm), 0, 255)
                                   ELSE R(px[1]),
                                   R(px[2]),
                                   IF tempShift # 0 THEN RClamp(RSub(R(px[3]), warm), 0, 255)
                                   ELSE R(px[3])),
                          hueShift, sF))

\* Lines 749-768.
applyHueSatTemp(b, hueShift, satShift, tempShift) ==
    [b EXCEPT !.data = [i \in 1..PixelCount(b) |->
        HueSatTempPixel(b.data[i], hueShift, RAdd(R(1), Rat(satShift, 100)), tempShift,
                        Rat(tempShift * 8, 10))]]

\* Line 789: Math.min(1, s * 2.5), s possibly infinite.
BoostedSaturation(s) ==
    IF s = Infinity THEN R(1)
    ELSE IF RLt(R(1), RMul(s, Rat(5, 2))) THEN R(1) ELSE RMul(s, Rat(5, 2))

\* Lines 776-780: the hue moved by colorShift before the style is applied.
PreShift(px, colorShift) ==
    IF colorShift # 0
    THEN ShiftHsl(rgbToHsl(R(px[1]), R(px[2]), R(px[3])), colorShift, R(1))
    ELSE <<px[1], px[2], px[3]>>

\* Lines 788-789: the saturation of the quantised colour boosted.
NeonBoost(hsl) == hslToRgb(hsl[1], BoostedSaturation(hsl[2]), hsl[3])

\* Lines 783-790.
StyleNeon(c) ==
    NeonBoost(rgbToHsl(R(MathRound(Rat(c[1], 64)) * 85), R(MathRound(Rat(c[2], 64)) * 85),
                       R(MathRound(Rat(c[3], 64)) * 85)))

\* Lines 796-799.
RetroPalettes == << <<40, 30, 20>>, <<120, 80, 40>>, <<200, 160, 80>>, <<240, 220, 180>> >>

\* Lines 794-801.
StyleRetro(c) == RetroPalettes[Min(MathFloor(RDiv(Luma(c), R(64))), 3) + 1]

\* Lines 804-811.
PastelChannel(v) == MathRound(RAdd(Rat(MathRound(Rat(v, 85)) * 85, 2), R(128)))
StylePastel(c) == <<PastelChannel(c[1]), PastelChannel(c[2]), PastelChannel(c[3])>>

\* Lines 814-820: dark and light mixed by t = gray / 255.
Duotone(dark, light, t) == MathRound(RAdd(RMul(R(dark), RSub(R(1), t)), RMul(R(light), t)))
StyleDuotone(t) == <<Duotone(20, 255, t), Duotone(10, 200, t), Duotone(80, 50, t)>>

\* Lines 774-822: the three numbers stored for one pixel; for a style outside
\* 1..4 nothing is stored and the pixel keeps its bytes.
PosterizeStyleNumbers(px, c, style) ==
    CASE style = 1 -> StyleNeon(c)
      [] style = 2 -> StyleRetro(c)
      [] style = 3 -> StylePastel(c)
      [] style = 4 -> StyleDuotone(RDiv(Luma(c), R(255)))
      [] OTHER -> <<px[1], px[2], px[3]>>

\* Lines 771-825.
applyPosterizeStyle(b, style, colorShift) ==
    [b EXCEPT !.data = [i \in 1..PixelCount(b) |->
        StoreRgb(b.data[i],
                 PosterizeStyleNumbers(b.data[i], PreShift(b.data[i], colorShift), style))]]

\* Math.random(): what the environment returns for draw number k.  A stream
\* rnd is a sequence of quarters (0..3 standing for 0, 0.25, 0.5, 0.75), read
\* cyclically; the draws made while pixel i is processed are 8 * (i - 1) + n.
MathRandom(rnd, k) == Rat(rnd[(k % Len(rnd)) + 1], 4)

\* Lines 420-424: gaussRand() from draws k and k + 1,
\* Math.sqrt(-2 * Math.log(u1 || 0.001)) * Math.cos(2 * Math.PI * u2), the
\* square root to two decimals; the cosine of a quarter turn is 1, 0, -1, 0.
gaussRand(rnd, k) ==
    Rat(<<372, 167, 118, 76>>[rnd[(k % Len(rnd)) + 1] + 1]
            * <<1, 0, -1, 0>>[rnd[((k + 1) % Len(rnd)) + 1] + 1], 100)

\* Lines 412-475.
applyNewNoise(b, type, amount, density, rnd) ==
    LET strength == Rat(amount * 255, 100)
        densityF == Rat(density, 100)
        add(v, n) == ToUint8Clamped(RClamp(RAdd(R(v), n), 0, 255))
        grain(px) ==
            LET lum == RDiv(Luma(px), R(255))
                midtoneFactor == RSub(R(1), RMul(RAbs(RSub(lum, Rat(1, 2))), R(2)))
            IN  RMul(RMul(strength, Rat(1, 2)),
                     RAdd(Rat(3, 10), RMul(midtoneFactor, Rat(7, 10))))
        out(i) ==
            LET px == b.data[i]
                k == 8 * (i - 1)
                n1 == RMul(RMul(gaussRand(rnd, k + 1), strength), Rat(4, 10))
                n2 == RMul(gaussRand(rnd, k + 1), grain(px))
                n3(j) == RMul(RMul(gaussRand(rnd, k + j), strength), Rat(1, 2))
                n4 == RMul(RSub(MathRandom(rnd, k + 1), Rat(1, 2)), strength)
            IN  IF RLt(densityF, MathRandom(rnd, k)) THEN px
                ELSE IF type = 1 THEN <<add(px[1], n1), add(px[2], n1), add(px[3], n1), px[4]>>
                ELSE IF type = 2 THEN <<add(px[1], n2), add(px[2], n2), add(px[3], n2), px[4]>>
                ELSE IF type = 3
                     THEN <<add(px[1], n3(1)), add(px[2], n3(3)), add(px[3], n3(5)), px[4]>>
                ELSE IF type = 4 THEN <<add(px[1], n4), add(px[2], n4), add(px[3], n4), px[4]>>
                ELSE px
    IN  IF amount <= 0 \/ type = 0 THEN b
        ELSE [b EXCEPT !.data = [i \in 1..PixelCount(b) |-> out(i)]]

\* Lines 1283-1296 and 1395-1407 with the scan preferring later buckets.
BucketMeanLastWins(b, samp, bins, numBins, i) ==
    LET count(k) == SumSeq([n \in 1..Len(samp) |-> IF bins[samp[n]] = k THEN 1 ELSE 0])
        counts == [k \in 0..(numBins - 1) |-> count(k)]
        maxBin == CHOOSE k \in 0..(numBins - 1) :
                      /\ \A j \in 0..(numBins - 1) : counts[j] <= counts[k]
                      /\ \A j \in (k + 1)..(numBins - 1) : counts[j] < counts[k]
        maxCount == counts[maxBin]
        mean(ch) ==
            ToUint8Clamped(
                Rat(SumSeq([n \in 1..Len(samp) |->
                               IF bins[samp[n]] = maxBin THEN b.data[samp[n]][ch] ELSE 0]),
                    maxCount))
    IN  IF maxCount > 0 THEN <<mean(1), mean(2), mean(3), b.data[i][4]>>
        ELSE b.data[i]

\* Lines 1283-1296 and 1395-1407: the output pixel i from the samples samp (a
\* sequence of pixel indices) and the bucket bins[j] of each pixel j.  The
\* first bucket with the highest count wins; the colour is the mean over that
\* bucket's samples; alpha is copied from pixel i.
BucketMean(b, samp, bins, numBins, i) ==
    LET count(k) == SumSeq([n \in 1..Len(samp) |-> IF bins[samp[n]] = k THEN 1 ELSE 0])
        counts == [k \in 0..(numBins - 1) |-> count(k)]
        maxBin == CHOOSE k \in 0..(numBins - 1) :
                      /\ \A j \in 0..(numBins - 1) : counts[j] <= counts[k]
                      /\ \A j \in 0..(k - 1) : counts[j] < counts[k]
        maxCount == counts[maxBin]
        mean(ch) ==
            ToUint8Clamped(
                Rat(SumSeq([n \in 1..Len(samp) |->
                               IF bins[samp[n]] = maxBin THEN b.data[samp[n]][ch] ELSE 0]),
                    maxCount))
    IN  IF maxCount > 0 THEN <<mean(1), mean(2), mean(3), b.data[i][4]>>
        ELSE b.data[i]

\* Lines 1251-1256: grayMap, the bucket of every pixel (a Uint8Array).
grayMap(b, levels) ==
    [i \in 1..PixelCount(b) |->
        MathFloor(Rat(((b.data[i][1] * 77 + b.data[i][2] * 150 + b.data[i][3] * 29) \div 256)
                          * (levels - 1),
                      255)) % 256]

\* Lines 1246-1247, 1265-1273: the pixels sampled for pixel i, in loop order.
OilPaintWindow(b, radius, i) ==
    LET r == Min(5, Max(1, MathRound(R(radius))))
        step == IF r > 3 THEN 2 ELSE 1
        x0 == Max(0, XOf(b, i) - r)
        x1 == Min(b.width - 1, XOf(b, i) + r)
        y0 == Max(0, YOf(b, i) - r)
        y1 == Min(b.height - 1, YOf(b, i) + r)
        nx == (x1 - x0) \div step + 1
        ny == (y1 - y0) \div step + 1
    IN  [n \in 1..(nx * ny) |->
            (y0 + step * ((n - 1) \div nx)) * b.width + x0 + step * ((n - 1) % nx) + 1]

\* Lines 1241-1300.
applyOilPaint(b, radius, levels) ==
    [b EXCEPT !.data =
        [i \in 1..PixelCount(b) |->
            BucketMean(b, OilPaintWindow(b, radius, i), grayMap(b, levels), levels, i)]]

\* Math.cos and Math.sin of a direction that is a multiple of 45 degrees, in
\* thousandths.
CosMilli(deg) == <<1000, 707, 0, -707, -1000, -707, 0, 707>>[((deg \div 45) % 8) + 1]

SinMilli(deg) == CosMilli(deg + 270)

\* Lines 1364, 1378, 1388: the bucket of every pixel.
KnifeBins(b) ==
    [i \in 1..PixelCount(b) |->
        Min(5, MathFloor(Rat((b.data[i][1] + b.data[i][2] + b.data[i][3]) * 6, 766)))]

\* Lines 1362-1363, 1367-1371, 1384-1387: the pixels sampled for pixel i.
KnifeStroke(b, strokeLen, direction, i) ==
    LET len == Min(20, Max(2, MathRound(R(strokeLen))))
        step == IF len > 10 THEN 2 ELSE 1
        sampleCount == (2 * len) \div step + 1
        t(n) == -len + step * (n - 1)
    IN  [n \in 1..sampleCount |->
            LET sx == Max(0, Min(b.width - 1,
                          XOf(b, i) + MathRound(Rat(t(n) * CosMilli(direction), 1000))))
                sy == Max(0, Min(b.height - 1,
                          YOf(b, i) + MathRound(Rat(t(n) * SinMilli(direction), 1000))))
            IN  sy * b.width + sx + 1]

\* Lines 1354-1411.
applyPaletteKnife(b, strokeLen, direction) ==
    [b EXCEPT !.data =
        [i \in 1..PixelCount(b) |->
            BucketMean(b, KnifeStroke(b, strokeLen, direction, i), KnifeBins(b), 6, i)]]

\* Lines 1303-1351; intensity is a rational.
applyMetal(b, intensity) ==
    LET w == b.width
        embossed(i, ch) ==
            IF Interior(b, i)
            THEN ToUint8Clamped(RClamp(
                     RSub(R(b.data[i][ch] * 2),
                          Rat(b.data[i - w - 1][ch] + b.data[i + w + 1][ch], 2)), 0, 255))
            ELSE b.data[i][ch]
        desat == RAdd(Rat(3, 10),
                      RMul(Rat(7, 10), RSub(R(1), RMul(intensity, Rat(1, 2)))))
        contrast == RAdd(R(1), RMul(intensity, Rat(4, 10)))
        out(i) ==
            LET px == <<embossed(i, 1), embossed(i, 2), embossed(i, 3)>>
                gray == Luma(px)
                tint(ch, gain, shine) ==
                    LET m1 == RAdd(RMul(gray, RSub(R(1), desat)), RMul(R(px[ch]), desat))
                        m2 == RMul(m1, RAdd(R(1), RMul(intensity, gain)))
                        m3 == RAdd(RMul(RSub(m2, R(128)), contrast), R(128))
                        spec == RMul(RMul(RDiv(RSub(gray, R(200)), R(55)), intensity), R(80))
                        m4 == IF RLt(R(200), gray) THEN RAdd(m3, RMul(spec, shine)) ELSE m3
                    IN  ToUint8Clamped(RClamp(m4, 0, 255))
            IN  <<tint(1, Rat(-15, 100), R(1)), tint(2, Rat(-5, 100), R(1)),
                  tint(3, Rat(12, 100), Rat(11, 10)), b.data[i][4]>>
    IN  [b EXCEPT !.data = [i \in 1..PixelCount(b) |-> out(i)]]

\* Math.sin(0.4 * k) for k = 0..8, in hundredths: Math.sin(x * 0.8) is
\* SinOfFourTenths(2 * x) and Math.sin((x + y) * 0.4) is SinOfFourTenths(x + y).
SinOfFourTenths(k) == Rat(<<0, 39, 72, 93, 100, 91, 68, 33, -6>>[k + 1], 100)

\* Lines 1414-1583; intensity is a rational.
applyTextureFilter(b, mode, intensity, rnd) ==
    LET w == b.width
        h == b.height
        orig == b.data
        clamp(p) == ToUint8Clamped(RClamp(p, 0, 255))
        half(k) == RAdd(RMul(SinOfFourTenths(k), Rat(1, 2)), Rat(1, 2))
        darkness(px) == RSub(R(1), RDiv(Luma(px), R(255)))
        \* case 1, lines 1422-1440
        canvasTexture(i) ==
            LET pattern == RAdd(RMul(RMul(half(2 * XOf(b, i)), half(2 * YOf(b, i))),
                                     Rat(3, 10)), Rat(7, 10))
                lum == Rat(orig[i][1] + orig[i][2] + orig[i][3], 765)
                texFactor ==
                    RSub(R(1), RMul(RMul(RSub(R(1), pattern), intensity),
                                    RAdd(Rat(3, 10), RMul(lum, Rat(7, 10)))))
            IN  <<clamp(RMul(R(orig[i][1]), texFactor)), clamp(RMul(R(orig[i][2]), texFactor)),
                  clamp(RMul(R(orig[i][3]), texFactor)), orig[i][4]>>
        \* case 2, lines 1443-1455: the displaced copy
        disp == MathRound(RMul(R(3), intensity))
        bleed(i) ==
            LET jitter(k) == MathRound(RMul(RSub(MathRandom(rnd, k), Rat(1, 2)), R(disp)))
                ox == Max(0, Min(w - 1, XOf(b, i) + jitter(8 * (i - 1))))
                oy == Max(0, Min(h - 1, YOf(b, i) + jitter(8 * (i - 1) + 1)))
                o == orig[oy * w + ox + 1]
            IN  <<o[1], o[2], o[3], orig[i][4]>>
        copy == [i \in 1..PixelCount(b) |-> bleed(i)]
        \* case 2, lines 1457-1480: the edge darkening of interior pixels
        watercolor(i) ==
            LET edgeH == RAbs(RSub(Luma(copy[i + 1]), Luma(copy[i - 1])))
                edgeV == RAbs(RSub(Luma(copy[i + w]), Luma(copy[i - w])))
                edge == RClamp(RMul(RDiv(RAdd(edgeH, edgeV), R(200)), intensity), 0, 1)
                darken == RSub(R(1), RMul(edge, Rat(1, 2)))
                variation == RMul(RMul(RSub(MathRandom(rnd, 8 * (i - 1) + 2), Rat(1, 2)),
                                       R(10)), intensity)
                darkened == [c \in 1..3 |-> ToUint8Clamped(RMul(R(copy[i][c]), darken))]
                ch(c) == clamp(RAdd(R(darkened[c]), variation))
            IN  IF Interior(b, i) THEN <<ch(1), ch(2), ch(3), copy[i][4]>> ELSE copy[i]
        \* case 3, lines 1483-1501
        crayon(i) ==
            LET hatch == half(XOf(b, i) + YOf(b, i))
                gap == IF RLt(MathRandom(rnd, 8 * (i - 1)), RMul(Rat(15, 100), intensity))
                       THEN Rat(6, 10) ELSE R(1)
                factor == RMul(RAdd(Rat(7, 10), RMul(hatch, Rat(3, 10))), gap)
                colorVar == RMul(RMul(RSub(MathRandom(rnd, 8 * (i - 1) + 1), Rat(1, 2)),
                                      R(15)), intensity)
                ch(v) == clamp(RAdd(RMul(R(v), factor), colorVar))
            IN  <<ch(orig[i][1]), ch(orig[i][2]), ch(orig[i][3]), orig[i][4]>>
        \* case 4, lines 1502-1528
        impasto(i) ==
            LET ch(c) ==
                    LET tl == orig[i - w - 1][c]
                        br == orig[i + w + 1][c]
                    IN  clamp(RSub(RAdd(R(orig[i][c]),
                                        RMul(Rat(orig[i][c] - tl, 2), intensity)),
                                   RMul(Rat((br - orig[i][c]) * 3, 10), intensity)))
            IN  IF Interior(b, i) THEN <<ch(1), ch(2), ch(3), orig[i][4]>> ELSE orig[i]
        \* case 5, lines 1529-1562
        crosshatch(i) ==
            LET x == XOf(b, i)
                y == YOf(b, i)
                over(tenths) ==
                    RLt(RMul(Rat(tenths, 10), RSub(R(2), intensity)), darkness(orig[i]))
                ink == (IF over(2) /\ y % 4 < 1 THEN 1 ELSE 0)
                         + (IF over(4) /\ x % 4 < 1 THEN 1 ELSE 0)
                         + (IF over(6) /\ (x + y) % 5 < 1 THEN 1 ELSE 0)
                         + (IF over(8) /\ (x - y + 500) % 5 < 1 THEN 1 ELSE 0)
                v == IF ink > 0 THEN 0 ELSE 255
            IN  <<v, v, v, orig[i][4]>>
        \* case 6, lines 1563-1580
        stipple(i) ==
            LET dotProb == RMul(RMul(darkness(orig[i]), intensity), Rat(8, 10))
                v == IF RLt(MathRandom(rnd, 8 * (i - 1)), dotProb) THEN 0 ELSE 255
            IN  <<v, v, v, orig[i][4]>>
        out(i) == CASE mode = 1 -> canvasTexture(i)
                    [] mode = 2 -> watercolor(i)
                    [] mode = 3 -> crayon(i)
                    [] mode = 4 -> impasto(i)
                    [] mode = 5 -> crosshatch(i)
                    [] mode = 6 -> stipple(i)
                    [] OTHER -> orig[i]
    IN  IF mode = 0 THEN b
        ELSE [b EXCEPT !.data = [i \in 1..PixelCount(b) |-> out(i)]]

\* Lines 1075-1109: fillBlock on the output bytes `out` (a function of the
\* pixel index), reading the untouched copy `orig`.  pixels is a set of
\* <<x, y>>.  The colour bytes of the block's pixels become the rounded mean,
\* then the block's top row and left column are darkened, the corner twice.
fillBlock(b, out, orig, pixels, x0, y0, x1, y1) ==
    LET inside == {i \in 1..PixelCount(b) : <<XOf(b, i), YOf(b, i)>> \in pixels}
        cnt == Cardinality(inside)
        avg(ch) == MathRound(Rat(SumSeq([i \in 1..PixelCount(b) |->
                                     IF i \in inside THEN orig[i][ch] ELSE 0]), cnt))
        dark(v) == MathRound(Rat(v * 85, 100))
        filled == [i \in 1..PixelCount(b) |->
                     IF i \in inside THEN <<avg(1), avg(2), avg(3), out[i][4]>>
                     ELSE out[i]]
        onRow(i) == YOf(b, i) = y0 /\ XOf(b, i) >= x0 /\ XOf(b, i) <= x1
        onCol(i) == XOf(b, i) = x0 /\ YOf(b, i) >= y0 /\ YOf(b, i) <= y1
        rowDone == [i \in 1..PixelCount(b) |->
                      IF onRow(i)
                      THEN <<dark(filled[i][1]), dark(filled[i][2]), dark(filled[i][3]),
                             filled[i][4]>>
                      ELSE filled[i]]
    IN  IF cnt = 0 THEN out
        ELSE [i \in 1..PixelCount(b) |->
                 IF onCol(i)
                 THEN <<dark(rowDone[i][1]), dark(rowDone[i][2]), dark(rowDone[i][3]),
                        rowDone[i][4]>>
                 ELSE rowDone[i]]

\* Lines 1112-1155 and 1204-1235: the blocks of modes 1, 2 and 4 in the order
\* of the loops (rows of blocks, then blocks in a row), from block number n on.
\* Block n of mode 1 takes Math.random() draws 8 * n and 8 * n + 1.
RECURSIVE FacetBlocks(_, _, _, _, _, _, _)
FacetBlocks(b, out, orig, mode, bs, rnd, n) ==
    LET w == b.width
        h == b.height
        perRow == (w + bs - 1) \div bs
        bx == bs * (n % perRow)
        by == bs * (n \div perRow)
        vary(k) == Max(2, bs + MathRound(RMul(RMul(RSub(MathRandom(rnd, k), Rat(1, 2)),
                                                   R(bs)), Rat(6, 10))))
        x1 == Min(w - 1, bx + (IF mode = 1 THEN vary(8 * n) ELSE bs))
        y1 == Min(h - 1, by + (IF mode = 1 THEN vary(8 * n + 1) ELSE bs))
        block == {<<xx, yy>> \in (bx..x1) \X (by..y1) : TRUE}
        upper(q) == RLe(RAdd(Rat(q[1] - bx, Max(1, x1 - bx)),
                             Rat(q[2] - by, Max(1, y1 - by))), R(1))
        triA == {q \in block : upper(q)}
        triB == {q \in block : ~upper(q)}
        halfBS == Max(2, MathRound(Rat(bs, 2)))
        cell == (bx..(Min(w, bx + bs) - 1)) \X (by..(Min(h, by + bs) - 1))
        inDiamond(q) == Abs(q[1] - (bx + halfBS)) + Abs(q[2] - (by + halfBS)) <= halfBS
        diamond == {q \in cell : inDiamond(q)}
        diamondDone == fillBlock(b, out, orig, diamond, bx, by, x1, y1)
        corner(v) == MathRound(Rat(v * 8, 10))
        next ==
            CASE mode = 1 -> fillBlock(b, out, orig, block, bx, by, x1, y1)
              [] mode = 2 ->
                    fillBlock(b, fillBlock(b, out, orig, triA, bx, by, x1, y1), orig, triB,
                              bx, by, x1, y1)
              [] mode = 4 ->
                    [i \in 1..PixelCount(b) |->
                        IF <<XOf(b, i), YOf(b, i)>> \in cell
                               /\ ~inDiamond(<<XOf(b, i), YOf(b, i)>>)
                        THEN <<corner(orig[i][1]), corner(orig[i][2]), corner(orig[i][3]),
                               diamondDone[i][4]>>
                        ELSE diamondDone[i]]
    IN  IF by >= h THEN out
        ELSE FacetBlocks(b, next, orig, mode, bs, rnd, n + 1)

\* Lines 1156-1203: the Voronoi cells.  Seed s is placed by Math.random()
\* draws 2 * s and 2 * s + 1.
FacetVoronoi(b, orig, bs, rnd) ==
    LET w == b.width
        h == b.height
        numSeeds == Max(20, MathRound(Rat(w * h, bs * bs * 2)))
        seedX(s) == MathFloor(RMul(MathRandom(rnd, 2 * s), R(w)))
        seedY(s) == MathFloor(RMul(MathRandom(rnd, 2 * s + 1), R(h)))
        cellSz == Max(1, ISqrtBetween((w * h) \div numSeeds, 0, w * h))
        gridW == (w + cellSz - 1) \div cellSz
        gridH == (h + cellSz - 1) \div cellSz
        cellX(x) == Min(gridW - 1, x \div cellSz)
        cellY(y) == Min(gridH - 1, y \div cellSz)
        best(i) ==
            LET x == XOf(b, i)
                y == YOf(b, i)
                near == {s \in 0..(numSeeds - 1) :
                            /\ Abs(cellX(seedX(s)) - cellX(x)) <= 2
                            /\ Abs(cellY(seedY(s)) - cellY(y)) <= 2}
                dist(s) == (x - seedX(s)) * (x - seedX(s)) + (y - seedY(s)) * (y - seedY(s))
                \* the order in which the loops meet the seeds
                rank(s) == (cellY(seedY(s)) * gridW + cellX(seedX(s))) * numSeeds + s
            IN  IF near = {} THEN 0
                ELSE CHOOSE s \in near :
                         \A t \in near :
                             dist(s) < dist(t) \/ (dist(s) = dist(t) /\ rank(s) <= rank(t))
    IN  [i \in 1..PixelCount(b) |->
            LET seedPixel == orig[seedY(best(i)) * w + seedX(best(i)) + 1]
            IN  <<seedPixel[1], seedPixel[2], seedPixel[3], orig[i][4]>>]

\* Lines 1068-1238.
applyFacet(b, mode, size, rnd) ==
    LET bs == Max(3, MathRound(R(size)))
    IN  [b EXCEPT !.data =
            IF mode \in {1, 2, 4} THEN FacetBlocks(b, b.data, b.data, mode, bs, rnd, 0)
            ELSE IF mode = 3 THEN FacetVoronoi(b, b.data, bs, rnd)
            ELSE b.data]

----------------------------------------------------------------------------
(* Oil paint and palette knife on their own: canvases of up to three pixels *)
(* in a row over four colours, of which two share an oil-paint bucket.      *)

BucketPalette ==
    {<<250, 250, 250, 255>>, <<10, 20, 30, 128>>, <<120, 130, 140, 200>>, <<130, 120, 110, 255>>}

MaxBucketWidth == 3

BucketArguments(fn) ==
    IF fn = "applyOilPaint" THEN {<<1, 20>>, <<4, 20>>, <<1, 4>>}
    ELSE {<<2, 0>>, <<2, 90>>, <<20, 45>>}

InitBuckets ==
    /\ pc = "bucketFilter"
    /\ src \in Buffers(MaxBucketWidth, 1, BucketPalette)
    /\ canvas = src
    /\ \E fn \in {"applyOilPaint", "applyPaletteKnife"} : \E p \in BucketArguments(fn) :
          args = [fn |-> fn, p |-> p]
    /\ result = Null
    /\ filters = None
    /\ applied = <<>>
    /\ editor = None

CallOilPaint ==
    /\ pc = "bucketFilter"
    /\ args.fn = "applyOilPaint"
    /\ canvas' = applyOilPaint(canvas, args.p[1], args.p[2])
    /\ pc' = "done"
    /\ UNCHANGED <<args, src, result, filters, applied, editor>>

CallPaletteKnife ==
    /\ pc = "bucketFilter"
    /\ args.fn = "applyPaletteKnife"
    /\ canvas' = applyPaletteKnife(canvas, args.p[1], args.p[2])
    /\ pc' = "done"
    /\ UNCHANGED <<args, src, result, filters, applied, editor>>

NextBuckets == CallOilPaint \/ CallPaletteKnife

SpecBuckets == InitBuckets /\ [][NextBuckets]_vars

\* The samples of pixel i, the bucket of every pixel and the number of
\* buckets of the call in args.
SamplesOfCall(i) ==
    IF args.fn = "applyOilPaint" THEN OilPaintWindow(src, args.p[1], i)
    ELSE KnifeStroke(src, args.p[1], args.p[2], i)

BinsOfCall == IF args.fn = "applyOilPaint" THEN grayMap(src, args.p[2]) ELSE KnifeBins(src)

LevelsOfCall == IF args.fn = "applyOilPaint" THEN args.p[2] ELSE 6

\* The positions in samp whose pixel is in bucket k.
InBucket(samp, bins, k) == {n \in 1..Len(samp) : bins[samp[n]] = k}

\* The sum of channel ch over the samples at the positions in S.
ChannelSum(samp, S, ch) ==
    SumSeq([n \in 1..Len(samp) |-> IF n \in S THEN src.data[samp[n]][ch] ELSE 0])

\* C25: the output colour of oil paint and palette knife is the mean (stored
\* in a byte) of R, G, B over the samples of the bucket with the highest
\* count, the lowest such bucket on ties, and every sample's bucket index is
\* in 0..levels-1 (oil paint) or 0..5 (palette knife).
C25_MeanOfFullestBucket ==
    pc = "done" =>
        \A i \in 1..PixelCount(src) :
            \A samp \in {SamplesOfCall(i)} : \A bins \in {BinsOfCall} :
                /\ \A n \in 1..Len(samp) : bins[samp[n]] \in 0..(LevelsOfCall - 1)
                /\ \E k \in 0..(LevelsOfCall - 1) :
                      /\ InBucket(samp, bins, k) # {}
                      /\ \A j \in 0..(LevelsOfCall - 1) :
                            /\ Cardinality(InBucket(samp, bins, j))
                                  <= Cardinality(InBucket(samp, bins, k))
                            /\ j < k => Cardinality(InBucket(samp, bins, j))
                                            < Cardinality(InBucket(samp, bins, k))
                      /\ \A ch \in 1..3 :
                            canvas.data[i][ch] =
                                ToUint8Clamped(Rat(ChannelSum(samp, InBucket(samp, bins, k), ch),
                                                   Cardinality(InBucket(samp, bins, k))))

\* Some pixel of a finished call has two buckets tied at the highest count,
\* and some pixel's winning bucket holds samples of different colours.
C25_Witness ==
    /\ pc = "done"
    /\ \E i \in 1..PixelCount(src) :
          \E samp \in {SamplesOfCall(i)} : \E bins \in {BinsOfCall} :
              \E k, j \in 0..(LevelsOfCall - 1) :
                  /\ k < j
                  /\ Cardinality(InBucket(samp, bins, k)) = Cardinality(InBucket(samp, bins, j))
                  /\ \A m \in 0..(LevelsOfCall - 1) :
                        Cardinality(InBucket(samp, bins, m)) <= Cardinality(InBucket(samp, bins, k))
                  /\ canvas.data[i][1] =
                        ToUint8Clamped(Rat(ChannelSum(samp, InBucket(samp, bins, k), 1),
                                           Cardinality(InBucket(samp, bins, k))))
    /\ \E i \in 1..PixelCount(src) :
          \E samp \in {SamplesOfCall(i)} : \E bins \in {BinsOfCall} :
              \E k \in 0..(LevelsOfCall - 1) :
                  /\ \A m \in 0..(LevelsOfCall - 1) :
                        Cardinality(InBucket(samp, bins, m)) <= Cardinality(InBucket(samp, bins, k))
                  /\ \E n, m \in InBucket(samp, bins, k) :
                        src.data[samp[n]] # src.data[samp[m]]

----------------------------------------------------------------------------
(* The Voronoi mode of applyFacet on its own (lines 1156-1203): the seeds,  *)
(* the grid that buckets them and the block of grid cells a pixel examines. *)

\* Line 1157.
numSeeds(b, bs) == Max(20, MathRound(Rat(b.width * b.height, bs * bs * 2)))

\* Lines 1160-1163: seed s (from 0), placed by draws 2 * s and 2 * s + 1,
\* with the colour of the source pixel under it.
Seed(b, rnd, s) ==
    [x |-> MathFloor(RMul(MathRandom(rnd, 2 * s), R(b.width))),
     y |-> MathFloor(RMul(MathRandom(rnd, 2 * s + 1), R(b.height)))]

SeedColour(b, seed) == b.data[seed.y * b.width + seed.x + 1]

\* Line 1166.
cellSz(b, bs) ==
    Max(1, ISqrtBetween((b.width * b.height) \div numSeeds(b, bs), 0, b.width * b.height))

\* Lines 1167-1168, 1172-1173, 1177, 1179: the grid cell of a position.
GridCell(b, sz, x, y) ==
    <<Min((b.width + sz - 1) \div sz - 1, x \div sz),
      Min((b.height + sz - 1) \div sz - 1, y \div sz)>>

\* Lines 1182-1187: the seeds bucketed in the 5 x 5 block of grid cells
\* around the cell of pixel (x, y).
SeedsInBlock(b, bs, rnd, x, y) ==
    {s \in 0..(numSeeds(b, bs) - 1) :
        \E sd \in {Seed(b, rnd, s)} :
            \E c \in {GridCell(b, cellSz(b, bs), sd.x, sd.y)} :
                \E own \in {GridCell(b, cellSz(b, bs), x, y)} :
                    Abs(c[1] - own[1]) <= 2 /\ Abs(c[2] - own[2]) <= 2}

\* Lines 1190-1191.
SeedDistance(sd, x, y) == (x - sd.x) * (x - sd.x) + (y - sd.y) * (y - sd.y)

MaxFacetWidth == 8

\* Math.random() streams, in quarters: two mixed ones, one that puts every
\* seed in the last column, and one that puts seed 0 three quarters of the
\* way along and every other seed half way.
FacetStreams ==
    {<<0, 1, 2, 3, 1>>, <<3, 0, 2>>, <<3>>, [k \in 1..40 |-> IF k = 1 THEN 3 ELSE IF k % 2 = 1 THEN 2 ELSE 0]}

InitFacet ==
    /\ pc = "applyFacet"
    /\ \E w \in 1..MaxFacetWidth : \E h \in 1..2 : src = TaggedBuffer(w, h)
    /\ \E size \in {3, 10} : \E rnd \in FacetStreams :
          args = [mode |-> 3, size |-> size, rnd |-> rnd]
    /\ canvas = None
    /\ result = Null
    /\ filters = None
    /\ applied = <<>>
    /\ editor = None

CallApplyFacet ==
    /\ pc = "applyFacet"
    /\ canvas' = applyFacet(src, args.mode, args.size, args.rnd)
    /\ pc' = "done"
    /\ UNCHANGED <<args, src, result, filters, applied, editor>>

SpecFacet == InitFacet /\ [][CallApplyFacet]_vars

\* C24: in Voronoi mode every destination pixel has the stored colour of the
\* seed at the smallest squared distance among the seeds bucketed in the
\* 5 x 5 block of grid cells centred on the pixel's own cell.
C24_NearestSeedOfBlock ==
    pc = "done" =>
        \A i \in 1..PixelCount(src) :
            \E s \in SeedsInBlock(src, Max(3, args.size), args.rnd, XOf(src, i), YOf(src, i)) :
                /\ \A t \in SeedsInBlock(src, Max(3, args.size), args.rnd, XOf(src, i), YOf(src, i)) :
                      SeedDistance(Seed(src, args.rnd, s), XOf(src, i), YOf(src, i))
                          <= SeedDistance(Seed(src, args.rnd, t), XOf(src, i), YOf(src, i))
                /\ \A ch \in 1..3 :
                      canvas.data[i][ch] = SeedColour(src, Seed(src, args.rnd, s))[ch]

----------------------------------------------------------------------------
(* One filter call on one buffer: the calls that applyFilters makes at       *)
(* lines 1788-1855, each taken alone.  A call is [fn, p, rnd]: the function,  *)
(* its arguments after the canvas, and the stream of Math.random() values.   *)

RunFilter(b, call) ==
    LET p == call.p
    IN  CASE call.fn = "applyBrightnessContrast" -> applyBrightnessContrast(b, p[1], p[2])
          [] call.fn = "applyHueSatTemp" -> applyHueSatTemp(b, p[1], p[2], p[3])
          [] call.fn = "applyNewNoise" -> applyNewNoise(b, p[1], p[2], p[3], call.rnd)
          [] call.fn = "applyPosterize" -> applyPosterize(b, p[1])
          [] call.fn = "applyInvert" -> applyInvert(b)
          [] call.fn = "applyLevels" -> applyLevels(b, p[1], p[2], p[3], p[4])
          [] call.fn = "applyOilPaint" -> applyOilPaint(b, p[1], p[2])
          [] call.fn = "applyMetal" -> applyMetal(b, p[1])
          [] call.fn = "applyPaletteKnife" -> applyPaletteKnife(b, p[1], p[2])
          [] call.fn = "applyTextureFilter" -> applyTextureFilter(b, p[1], p[2], call.rnd)
          [] call.fn = "applyFacet" -> applyFacet(b, p[1], p[2], call.rnd)
          [] call.fn = "applyPosterizeStyle" -> applyPosterizeStyle(b, p[1], p[2])

MaxAlphaWidth == 2

RandomStreams == {<<0, 1, 2, 3, 1>>, <<3, 0, 2>>}

FilterNames ==
    {"applyBrightnessContrast", "applyHueSatTemp", "applyNewNoise", "applyPosterize",
     "applyInvert", "applyLevels", "applyOilPaint", "applyMetal", "applyPaletteKnife",
     "applyTextureFilter", "applyFacet", "applyPosterizeStyle"}

\* The argument lists tried for each filter: every mode of noise, texture and
\* facet; intensities and gamma are rationals.
ArgumentsOf(fn) ==
    CASE fn = "applyBrightnessContrast" ->
             {<<50, 0>>, <<-100, 0>>, <<0, 50>>, <<-30, -40>>, <<100, 100>>}
      [] fn = "applyHueSatTemp" -> {<<30, 20, 0>>, <<-45, -30, 25>>}
      [] fn = "applyNewNoise" -> {<<type, 50, 50>> : type \in 1..4}
      [] fn = "applyPosterize" -> {<<1>>, <<4>>}
      [] fn = "applyInvert" -> {<<>>}
      [] fn = "applyLevels" -> {<<10, 200, Rat(1, n), n = 2>> : n \in {1, 2}}
      [] fn = "applyOilPaint" -> {<<4, 20>>, <<1, 2>>}
      [] fn = "applyMetal" -> {<<R(1)>>}
      [] fn = "applyPaletteKnife" -> {<<20, 45>>, <<2, 90>>}
      [] fn = "applyTextureFilter" -> {<<mode, R(1)>> : mode \in 1..6}
      [] fn = "applyFacet" -> {<<mode, 3>> : mode \in 1..4}
      [] fn = "applyPosterizeStyle" -> {<<style, shift>> : style \in 1..4, shift \in {0, 90}}

\* Whether the call draws from Math.random().
UsesRandom(fn, p) ==
    \/ fn = "applyNewNoise"
    \/ fn = "applyTextureFilter" /\ p[1] \in {2, 3, 6}
    \/ fn = "applyFacet" /\ p[1] \in {1, 3}

\* Buffers of up to two rows of every alpha pattern, and two larger ones with an interior
\* and more than one facet block.
AlphaBuffers ==
    Buffers(MaxAlphaWidth, 2, GeomPalette)
        \cup {TaggedBuffer(3, 3), TaggedBuffer(4, 4)}

InitAlpha ==
    /\ pc = "filter"
    /\ src \in AlphaBuffers
    /\ canvas = src
    /\ \E fn \in FilterNames : \E p \in ArgumentsOf(fn) :
          \E rnd \in IF UsesRandom(fn, p) THEN RandomStreams ELSE {<<0>>} :
              args = [fn |-> fn, p |-> p, rnd |-> rnd]
    /\ result = Null
    /\ filters = None
    /\ applied = <<>>
    /\ editor = None

CallFilter ==
    /\ pc = "filter"
    /\ canvas' = RunFilter(canvas, args)
    /\ pc' = "done"
    /\ UNCHANGED <<args, src, result, filters, applied, editor>>

NextAlpha == CallFilter

SpecAlpha == InitAlpha /\ [][NextAlpha]_vars

\* C6 (colour filters preserve alpha): after brightness/contrast,
\* hue/saturation/temperature, noise, posterize, invert, levels, oil paint,
\* metal, palette knife, texture or facet, in any of their modes, on any buffer,
\* the alpha byte of every output pixel equals the alpha byte of the same
\* input pixel.
C6_ColourFiltersPreserveAlpha ==
    pc = "done" => (canvas.width = src.width /\ canvas.height = src.height
                      /\ SameAlpha(canvas, src))

\* Facet, metal or texture has recoloured a buffer whose alpha varies from
\* pixel to pixel.
C6_Witness ==
    /\ pc = "done"
    /\ args.fn \in {"applyFacet", "applyMetal", "applyTextureFilter"}
    /\ \E i, j \in 1..PixelCount(src) : src.data[i][4] # src.data[j][4]
    /\ \E i \in 1..PixelCount(src) :
          /\ canvas.data[i] # src.data[i]
          /\ src.data[i][4] \notin {0, 255}

C18_BrightnessAloneAddsAndClamps ==
    (pc = "done" /\ args.fn = "applyBrightnessContrast" /\ args.p[2] = 0) =>
        \A i \in 1..PixelCount(src) :
            canvas.data[i] = <<Max(0, Min(255, src.data[i][1] + args.p[1])),
                               Max(0, Min(255, src.data[i][2] + args.p[1])),
                               Max(0, Min(255, src.data[i][3] + args.p[1])),
                               src.data[i][4]>>

\* The red pixel (255, 0, 0, 255) with brightness +50 has become
\* (255, 50, 50, 255).
C18_Witness ==
    /\ pc = "done"
    /\ args.fn = "applyBrightnessContrast"
    /\ args.p = <<50, 0>>
    /\ \E i \in 1..PixelCount(src) :
          /\ src.data[i] = <<255, 0, 0, 255>>
          /\ canvas.data[i] = <<255, 50, 50, 255>>

----------------------------------------------------------------------------
(* applyFindEdges (lines 582-625).  strength is a natural number here, so   *)
(* that Math.sqrt(n) * strength is the square root of an integer; blend is  *)
(* a rational.                                                              *)

\* Lines 599-600: gx * gx + gy * gy for channel ch of the pixel at (x, y).
SobelSquare(b, x, y, ch) ==
    LET v(dx, dy) == PixelAt(b, x + dx, y + dy)[ch]
        gx == -v(-1, -1) + v(1, -1) - 2 * v(-1, 0) + 2 * v(1, 0) - v(-1, 1) + v(1, 1)
        gy == -v(-1, -1) - 2 * v(0, -1) - v(1, -1) + v(-1, 1) + 2 * v(0, 1) + v(1, 1)
    IN  gx * gx + gy * gy

\* The square root of n rounded to the nearest integer, as the store into the
\* Uint8ClampedArray rounds it (the root of an integer is never a half).
RoundedRoot(n) ==
    LET f == ISqrtBetween(n, 0, 4096)
    IN  IF n > f * f + f THEN f + 1 ELSE f

\* Line 601: Math.min(255, Math.sqrt(gx * gx + gy * gy) * strength), stored.
EdgeChannel(b, x, y, ch, strength) ==
    Min(255, RoundedRoot(SobelSquare(b, x, y, ch) * strength * strength))

\* Lines 586-587: the pixels the Sobel loop visits.
EdgeInterior(b, x, y) == x >= 1 /\ x < b.width - 1 /\ y >= 1 /\ y < b.height - 1

\* Lines 608-617: the pixels the two border loops visit.
EdgeBorder(b, x, y) == y = 0 \/ y = b.height - 1 \/ x = 0 \/ x = b.width - 1

\* applyFindEdges without the border loops of lines 607-617.
EdgePixelInteriorOnly(b, x, y, strength) ==
    IF EdgeInterior(b, x, y)
    THEN <<EdgeChannel(b, x, y, 1, strength), EdgeChannel(b, x, y, 2, strength),
           EdgeChannel(b, x, y, 3, strength), PixelAt(b, x, y)[4]>>
    ELSE TransparentBlack

\* Lines 585-617: the pixel of `out` at (x, y); `out` starts zeroed.
EdgePixel(b, x, y, strength) ==
    IF EdgeInterior(b, x, y)
    THEN <<EdgeChannel(b, x, y, 1, strength), EdgeChannel(b, x, y, 2, strength),
           EdgeChannel(b, x, y, 3, strength), PixelAt(b, x, y)[4]>>
    ELSE IF EdgeBorder(b, x, y) THEN <<0, 0, 0, PixelAt(b, x, y)[4]>>
    ELSE TransparentBlack

\* Lines 619-624: drawImage(orig) with globalAlpha = blend, source-over: the
\* resulting alpha and colour of one pixel, to the nearest byte.
SourceOverAlpha(as, ad) == RAdd(as, RMul(ad, RSub(R(1), as)))

SourceOverChannel(s, d, as, ad, ao) ==
    IF ao = R(0) THEN 0
    ELSE ToUint8Clamped(RDiv(RAdd(RMul(R(s), as), RMul(RMul(R(d), ad), RSub(R(1), as))), ao))

SourceOverPixel(s, d, as, ad, ao) ==
    <<SourceOverChannel(s[1], d[1], as, ad, ao), SourceOverChannel(s[2], d[2], as, ad, ao),
      SourceOverChannel(s[3], d[3], as, ad, ao), ToUint8Clamped(RMul(R(255), ao))>>

SourceOver(s, d, as, ad) == SourceOverPixel(s, d, as, ad, SourceOverAlpha(as, ad))

DrawOver(s, d, blend) == SourceOver(s, d, RMul(blend, Rat(s[4], 255)), Rat(d[4], 255))

\* Lines 582-625.
applyFindEdges(b, strength, blend) ==
    [b EXCEPT !.data = [i \in 1..PixelCount(b) |->
        IF RLt(R(0), blend)
        THEN DrawOver(b.data[i], EdgePixel(b, XOf(b, i), YOf(b, i), strength), blend)
        ELSE EdgePixel(b, XOf(b, i), YOf(b, i), strength)]]

\* An opaque and a fully transparent pixel value.
EdgePalette == {<<255, 0, 0, 255>>, <<0, 64, 200, 0>>}

EdgeBuffers ==
    Buffers(MaxAlphaWidth, 2, EdgePalette) \cup {TaggedBuffer(3, 3), TaggedBuffer(4, 4)}

InitEdges ==
    /\ pc = "applyFindEdges"
    /\ src \in EdgeBuffers
    /\ canvas = src
    /\ \E strength \in 1..2 : \E blend \in {R(0), Rat(1, 2)} :
          args = [strength |-> strength, blend |-> blend]
    /\ result = Null
    /\ filters = None
    /\ applied = <<>>
    /\ editor = None

CallApplyFindEdges ==
    /\ pc = "applyFindEdges"
    /\ canvas' = applyFindEdges(canvas, args.strength, args.blend)
    /\ pc' = "done"
    /\ UNCHANGED <<args, src, result, filters, applied, editor>>

NextEdges == CallApplyFindEdges

SpecEdges == InitEdges /\ [][NextEdges]_vars

\* C19: applyFindEdges with blend = 0 leaves the alpha of every pixel, in the
\* interior and on the outermost ring, equal to the input alpha, for buffers
\* of any size, those smaller than 3x3 included.
C19_FindEdgesKeepsAlpha ==
    (pc = "done" /\ args.blend = R(0)) =>
        (canvas.width = src.width /\ canvas.height = src.height /\ SameAlpha(canvas, src))

\* A 2x2 buffer with one transparent and three opaque pixels has kept the
\* alphas 0, 255, 255, 255.
C19_Witness ==
    /\ pc = "done"
    /\ args.blend = R(0)
    /\ src.width = 2 /\ src.height = 2
    /\ [i \in 1..4 |-> src.data[i][4]] = <<0, 255, 255, 255>>
    /\ [i \in 1..4 |-> canvas.data[i][4]] = <<0, 255, 255, 255>>

----------------------------------------------------------------------------
(* applyHalftone (lines 654-746), in the four stages of the function.  The  *)
(* dots are rasterised by the canvas (fillRect, arc, fill): which pixels a  *)
(* dot covers, and how far on its anti-aliased rim, is the canvas's choice, *)
(* so the raster is chosen among the images whose pixels are white, the dot *)
(* colour, or half way between the two.  `result` keeps the raster as the   *)
(* dots left it; `canvas` is the canvas being worked on; args.orig is the   *)
(* copy of line 657, Null when colorBlend is 0.                             *)

White == <<255, 255, 255, 255>>

\* Lines 679-684: the fill styles a dot may have.
DotColours(b, colorMode) ==
    IF colorMode = 1 THEN {<<px[1], px[2], px[3], 255>> : px \in {b.data[i] : i \in 1..PixelCount(b)}}
    ELSE {<<0, 0, 0, 255>>}

\* A pixel on the rim of a dot, half covered.
HalfCovered(dot) == <<(255 + dot[1]) \div 2, (255 + dot[2]) \div 2, (255 + dot[3]) \div 2, 255>>

\* Lines 659-690: the images the canvas may hold after the dots are drawn.
HalftoneRasters(b, colorMode) ==
    {[b EXCEPT !.data = d] :
        d \in [1..PixelCount(b) ->
                  {White} \cup DotColours(b, colorMode)
                      \cup {HalfCovered(dot) : dot \in DotColours(b, colorMode)}]}

\* Lines 700-705: overlay of one channel, o from the original, v halftoned.
OverlayChannel(o, v) ==
    IF o < 128 THEN Rat(2 * o * v, 255)
    ELSE RSub(R(255), Rat(2 * (255 - o) * (255 - v), 255))

\* Lines 699-720: the value computed for one channel.
BlendChannel(blendMode, o, v) ==
    CASE blendMode = 1 -> OverlayChannel(o, v)
      [] blendMode = 2 -> Rat(v * o, 255)
      [] blendMode = 3 -> R(Min(v, o))
      [] OTHER -> R(v)

\* Lines 721-723: Math.round, stored into the clamped array.
BlendStored(blendMode, o, v) == ToUint8Clamped(R(MathRound(BlendChannel(blendMode, o, v))))

\* Lines 693-725 for a canvas `c` and the original `o`.
BlendWithOriginal(c, o, blendMode) ==
    [c EXCEPT !.data = [i \in 1..PixelCount(c) |->
        <<BlendStored(blendMode, o.data[i][1], c.data[i][1]),
          BlendStored(blendMode, o.data[i][2], c.data[i][2]),
          BlendStored(blendMode, o.data[i][3], c.data[i][3]), c.data[i][4]>>]]

\* Lines 732-734: one channel of the colour overlay.
MixStored(v, o, colorBlend) ==
    ToUint8Clamped(R(MathRound(RAdd(RMul(R(v), RSub(R(1), colorBlend)), RMul(R(o), colorBlend)))))

\* Lines 728-736.
MixWithOriginal(c, o, colorBlend) ==
    [c EXCEPT !.data = [i \in 1..PixelCount(c) |->
        <<MixStored(c.data[i][1], o.data[i][1], colorBlend),
          MixStored(c.data[i][2], o.data[i][2], colorBlend),
          MixStored(c.data[i][3], o.data[i][3], colorBlend), c.data[i][4]>>]]

\* Lines 739-745: the alpha bytes of the source put back.
RestoreAlpha(c, b) ==
    [c EXCEPT !.data = [i \in 1..PixelCount(c) |->
        <<c.data[i][1], c.data[i][2], c.data[i][3], b.data[i][4]>>]]

HalftonePalette == {<<200, 100, 50, 255>>, <<20, 40, 230, 128>>}

InitHalftone ==
    /\ pc = "applyHalftone"
    /\ src \in Buffers(2, 1, HalftonePalette)
    /\ canvas = src
    /\ \E colorMode \in 0..1 : \E colorBlend \in {R(0), Rat(1, 2), R(1)} : \E blendMode \in 0..3 :
          args = [dotSize |-> 6, angle |-> 45, colorMode |-> colorMode,
                  colorBlend |-> colorBlend, blendMode |-> blendMode,
                  \* Line 657
                  orig |-> IF RLt(R(0), colorBlend) THEN src ELSE Null]
    /\ result = Null
    /\ filters = None
    /\ applied = <<>>
    /\ editor = None

\* Lines 658-690.
DrawDots ==
    /\ pc = "applyHalftone"
    /\ canvas' \in HalftoneRasters(src, args.colorMode)
    /\ result' = canvas'
    /\ pc' = "blendMode"
    /\ UNCHANGED <<args, src, filters, applied, editor>>

\* Lines 692-726.
ApplyBlendMode ==
    /\ pc = "blendMode"
    /\ canvas' = IF args.blendMode > 0 /\ args.orig # Null
                  THEN BlendWithOriginal(canvas, args.orig, args.blendMode)
                  ELSE canvas
    /\ pc' = "colorBlend"
    /\ UNCHANGED <<args, src, result, filters, applied, editor>>

\* Lines 727-737.
ApplyColorBlend ==
    /\ pc = "colorBlend"
    /\ canvas' = IF RLt(R(0), args.colorBlend) /\ args.orig # Null
                  THEN MixWithOriginal(canvas, args.orig, args.colorBlend)
                  ELSE canvas
    /\ pc' = "restoreAlpha"
    /\ UNCHANGED <<args, src, result, filters, applied, editor>>

\* Lines 738-746.
ApplyRestoreAlpha ==
    /\ pc = "restoreAlpha"
    /\ canvas' = RestoreAlpha(canvas, src)
    /\ pc' = "done"
    /\ UNCHANGED <<args, src, result, filters, applied, editor>>

NextHalftone == DrawDots \/ ApplyBlendMode \/ ApplyColorBlend \/ ApplyRestoreAlpha

SpecHalftone == InitHalftone /\ [][NextHalftone]_vars

\* C23: when blendMode is 1, 2 or 3 the halftoned raster is combined with the
\* original by the overlay, multiply or darken formula, for every value of
\* colorBlend, 0 included (then the colour overlay and the alpha follow).
C23_BlendModeAlwaysApplied ==
    (pc = "done" /\ args.blendMode \in 1..3) =>
        \E blended \in {BlendWithOriginal(result, src, args.blendMode)} :
            canvas = RestoreAlpha(IF RLt(R(0), args.colorBlend)
                                  THEN MixWithOriginal(blended, src, args.colorBlend)
                                  ELSE blended, src)

----------------------------------------------------------------------------
(* Two invocations of one filter call.  The first runs on the source; the   *)
(* second runs either on the same source again, with the same arguments and *)
(* whatever Math.random() returns this time, or on the output of the first. *)
(* `canvas` holds the output of the first invocation and `result` that of   *)
(* the second.                                                              *)

MaxLevels == 256

\* The filters invoked twice: one that undoes itself, one that settles, and
\* one that draws from Math.random().
RepeatedFilters == {"applyInvert", "applyPosterize", "applyNewNoise"}

\* Lines 1805-1817 of applyFilters: the call made on the canvas.
RunRepeated(b, call) ==
    CASE call.fn = "applyInvert" -> applyInvert(b)
      [] call.fn = "applyPosterize" -> applyPosterize(b, call.p[1])
      [] call.fn = "applyNewNoise" ->
             applyNewNoise(b, call.p[1], call.p[2], call.p[3], call.rnd)

\* One row holding every byte value in a colour channel, with varying alpha.
RampBuffer ==
    [width |-> 86, height |-> 1,
     data |-> [i \in 1..86 |->
                 <<3 * i - 3, 3 * i - 2, Min(3 * i - 1, 255), (i * 37) % 256>>]]

RepeatBuffers(fn) ==
    IF fn \in {"applyInvert", "applyPosterize"} THEN {RampBuffer}
    ELSE {TaggedBuffer(2, 2), TaggedBuffer(3, 3)}

RepeatArgumentsOf(fn) ==
    IF fn = "applyPosterize" THEN {<<levels>> : levels \in 2..MaxLevels}
    ELSE ArgumentsOf(fn)

\* The streams Math.random() may produce during one invocation.
StreamsOf(fn, p) == IF UsesRandom(fn, p) THEN RandomStreams ELSE {<<0>>}

InitRepeat ==
    /\ pc = "first"
    /\ \E fn \in RepeatedFilters : \E p \in RepeatArgumentsOf(fn) : \E rnd \in StreamsOf(fn, p) :
          /\ args = [fn |-> fn, p |-> p, rnd |-> rnd]
          /\ src \in RepeatBuffers(fn)
    /\ canvas = Null
    /\ result = Null
    /\ filters = None
    /\ applied = <<>>
    /\ editor = None

CallFirst ==
    /\ pc = "first"
    /\ canvas' = RunRepeated(src, args)
    /\ pc' = "second"
    /\ UNCHANGED <<args, src, result, filters, applied, editor>>

\* The same call once more on the same source.
CallAgainOnSource ==
    /\ pc = "second"
    /\ \E rnd \in StreamsOf(args.fn, args.p) :
          result' = RunRepeated(src, [args EXCEPT !.rnd = rnd])
    /\ pc' = "repeated"
    /\ UNCHANGED <<args, src, canvas, filters, applied, editor>>

\* The same call on the output of the first.
CallOnOutput ==
    /\ pc = "second"
    /\ \E rnd \in StreamsOf(args.fn, args.p) :
          result' = RunRepeated(canvas, [args EXCEPT !.rnd = rnd])
    /\ pc' = "chained"
    /\ UNCHANGED <<args, src, canvas, filters, applied, editor>>

NextRepeat == CallFirst \/ CallAgainOnSource \/ CallOnOutput

SpecRepeat == InitRepeat /\ [][NextRepeat]_vars

\* C14: two invocations with the same buffer and the same parameters give
\* identical output, for noise, facet and texture too.
C14_SameInputSameOutput ==
    pc = "repeated" => result = canvas

\* C16: applyInvert applied twice returns the original buffer exactly, and
\* neither application touches the alpha channel.
C16_InvertTwiceIsIdentity ==
    (pc = "chained" /\ args.fn = "applyInvert") =>
        /\ result = src
        /\ SameAlpha(canvas, src)

\* The buffer holding every byte value has been inverted, which changed it,
\* and inverted again.
C16_Witness ==
    /\ pc = "chained"
    /\ args.fn = "applyInvert"
    /\ src = RampBuffer
    /\ \A i \in 1..PixelCount(src) : canvas.data[i][1] = 255 - src.data[i][1]
    /\ result = src

\* C17: applyPosterize is stable after its first application: for levels = 256
\* and for every levels >= 2 a second application with the same levels leaves
\* every byte as the first one left it.
C17_PosterizeIsStable ==
    (pc = "chained" /\ args.fn = "applyPosterize" /\ args.p[1] >= 2) => result = canvas

\* Four levels: the first application changed the buffer, the second did
\* not change it again.
C17_Witness ==
    /\ pc = "chained"
    /\ args.fn = "applyPosterize"
    /\ args.p = <<4>>
    /\ \E i \in 1..PixelCount(src) : canvas.data[i] # src.data[i]
    /\ \A i \in 1..PixelCount(src) : \A ch \in 1..3 : canvas.data[i][ch] \in {0, 85, 170, 255}
    /\ result = canvas

----------------------------------------------------------------------------
(* The filter pipeline: applyFilters (lines 1781-1868), processLayerFilters *)
(* (1872-1893) and processFiltersFromCanvas (1896-1945).  A call is          *)
(* [fn, p]: the function called on the working canvas and its arguments      *)
(* after the canvas.  In this specification `canvas` is the working canvas   *)
(* as drawn from the source (lines 1786, 1910) and `applied` is the sequence *)
(* of calls made on it since, in the order made: every call reads and writes *)
(* that one canvas.                                                          *)

\* An optional argument that the caller left out.
Undefined == <<>>

\* types.ts lines 86-152.
defaultFilters ==
    [lineArt |-> FALSE, lineArtBlend |-> <<1, 2>>, lineArtThreshold |-> 50,
     lineArtColorBlend |-> R(0),
     findEdges |-> FALSE, findEdgesBlend |-> <<1, 2>>, findEdgesStrength |-> R(1),
     blurType |-> 0, blurRadius |-> 0, blurAngle |-> 0,
     noiseType |-> 0, noiseAmount |-> 0, noiseDensity |-> 100,
     posterize |-> 0, brightness |-> 0, contrast |-> 0, invert |-> FALSE,
     levels |-> FALSE, levelsBlack |-> 0, levelsWhite |-> 255,
     levelsGamma |-> R(1), levelsMono |-> FALSE,
     halftone |-> FALSE, halftoneSize |-> 6, halftoneAngle |-> 45,
     halftoneColorMode |-> 0, halftoneColorBlend |-> R(0), halftoneBlendMode |-> 0,
     hueShift |-> 0, saturation |-> 0, colorTempShift |-> 0,
     posterizeStyle |-> 0, posterizeColorShift |-> 0,
     frostedGlass |-> FALSE, frostedGlassAmount |-> 8,
     strokeEnabled |-> FALSE, strokeColor |-> "#000000", strokeWidth |-> 3,
     strokeInner |-> FALSE, strokeOuter |-> TRUE,
     gameFilter |-> 0, gameFilterIntensity |-> R(1),
     facetFilter |-> 0, facetSize |-> 15,
     oilPaint |-> FALSE, oilPaintRadius |-> 4, oilPaintLevels |-> 20,
     metalFilter |-> FALSE, metalIntensity |-> R(1),
     paletteKnife |-> FALSE, paletteKnifeLength |-> 20, paletteKnifeDirection |-> 45,
     colorSepEnabled |-> FALSE, colorSepR |-> 8, colorSepG |-> 8, colorSepB |-> 8,
     colorSepMix |-> R(1),
     textureFilter |-> 0, textureIntensity |-> R(1),
     gradientFade |-> FALSE, gradientFadeDirection |-> 0, gradientFadeAmount |-> 50,
     channelShiftRG |-> 0, channelShiftYB |-> 0, channelShiftPC |-> 0]

\* A conditional call: the condition of the `if` and the call it guards.
Guarded(on, fn, p) == [on |-> on, fn |-> fn, p |-> p]

\* The calls of the guarded calls whose condition holds, in their order.
CallsMade(guarded) ==
    LET Taken(g) == g.on
        taken == SelectSeq(guarded, Taken)
    IN  [k \in 1..Len(taken) |-> [fn |-> taken[k].fn, p |-> taken[k].p]]

\* Lines 205-215 with no maxSize: a canvas of the image's size with the image
\* drawn on it.
imgToCanvas(img) == [width |-> img.width, height |-> img.height, data |-> img.data]

\* Lines 1788-1865: the conditional filter calls of applyFilters, top to bottom.
FilterCatalog(f) ==
    << Guarded(f.brightness # 0 \/ f.contrast # 0,
               "applyBrightnessContrast", <<f.brightness, f.contrast>>),
       Guarded(f.hueShift # 0 \/ f.saturation # 0 \/ f.colorTempShift # 0,
               "applyHueSatTemp", <<f.hueShift, f.saturation, f.colorTempShift>>),
       Guarded(f.blurType > 0 /\ f.blurRadius > 0,
               "applyNewBlur", <<f.blurType, f.blurRadius, f.blurAngle>>),
       Guarded(f.frostedGlass /\ f.frostedGlassAmount > 0,
               "applyFrostedGlass", <<f.frostedGlassAmount>>),
       Guarded(f.noiseType > 0 /\ f.noiseAmount > 0,
               "applyNewNoise", <<f.noiseType, f.noiseAmount, f.noiseDensity>>),
       Guarded(f.posterize > 0, "applyPosterize", <<f.posterize>>),
       Guarded(f.posterizeStyle > 0,
               "applyPosterizeStyle", <<f.posterizeStyle, f.posterizeColorShift>>),
       Guarded(f.lineArt,
               "applyLineArt", <<f.lineArtThreshold, f.lineArtBlend, f.lineArtColorBlend>>),
       Guarded(f.findEdges, "applyFindEdges", <<f.findEdgesStrength, f.findEdgesBlend>>),
       Guarded(f.invert, "applyInvert", <<>>),
       Guarded(f.levels,
               "applyLevels", <<f.levelsBlack, f.levelsWhite, f.levelsGamma, f.levelsMono>>),
       Guarded(f.halftone,
               "applyHalftone", <<f.halftoneSize, f.halftoneAngle, f.halftoneColorMode,
                                  f.halftoneColorBlend, f.halftoneBlendMode>>),
       Guarded(f.strokeEnabled,
               "applyStroke", <<f.strokeColor, f.strokeWidth, f.strokeInner, f.strokeOuter>>),
       Guarded(f.facetFilter > 0, "applyFacet", <<f.facetFilter, f.facetSize>>),
       Guarded(f.oilPaint, "applyOilPaint", <<f.oilPaintRadius, f.oilPaintLevels>>),
       Guarded(f.metalFilter, "applyMetal", <<f.metalIntensity>>),
       Guarded(f.paletteKnife,
               "applyPaletteKnife", <<f.paletteKnifeLength, f.paletteKnifeDirection>>),
       Guarded(f.textureFilter > 0,
               "applyTextureFilter", <<f.textureFilter, f.textureIntensity>>),
       Guarded(f.colorSepEnabled /\ RLt(R(0), f.colorSepMix),
               "applyColorSeparation", <<f.colorSepR, f.colorSepG, f.colorSepB, f.colorSepMix>>),
       Guarded(f.gameFilter > 0, "applyGameFilter", <<f.gameFilter, f.gameFilterIntensity>>),
       Guarded(f.channelShiftRG # 0 \/ f.channelShiftYB # 0 \/ f.channelShiftPC # 0,
               "applyChannelShifts", <<f.channelShiftRG, f.channelShiftYB, f.channelShiftPC>>),
       Guarded(f.gradientFade /\ f.gradientFadeAmount > 0,
               "applyGradientFade", <<f.gradientFadeDirection, f.gradientFadeAmount>>) >>

\* applyFilters with every condition taken as true.
applyFiltersUngated(f) ==
    [k \in 1..Len(FilterCatalog(f)) |->
        [fn |-> FilterCatalog(f)[k].fn, p |-> FilterCatalog(f)[k].p]]

\* Lines 1788-1865: the calls applyFilters makes on its canvas.
applyFilters(f) == CallsMade(FilterCatalog(f))

\* Lines 1913-1940: the conditional filter calls of processFiltersFromCanvas.
CanvasFilterCatalog(f) ==
    << Guarded(f.brightness # 0 \/ f.contrast # 0,
               "applyBrightnessContrast", <<f.brightness, f.contrast>>),
       Guarded(f.hueShift # 0 \/ f.saturation # 0 \/ f.colorTempShift # 0,
               "applyHueSatTemp", <<f.hueShift, f.saturation, f.colorTempShift>>),
       Guarded(f.blurType > 0 /\ f.blurRadius > 0,
               "applyNewBlur", <<f.blurType, f.blurRadius, f.blurAngle>>),
       Guarded(f.frostedGlass /\ f.frostedGlassAmount > 0,
               "applyFrostedGlass", <<f.frostedGlassAmount>>),
       Guarded(f.noiseType > 0 /\ f.noiseAmount > 0,
               "applyNewNoise", <<f.noiseType, f.noiseAmount, f.noiseDensity>>),
       Guarded(f.posterize > 0, "applyPosterize", <<f.posterize>>),
       Guarded(f.posterizeStyle > 0,
               "applyPosterizeStyle", <<f.posterizeStyle, f.posterizeColorShift>>),
       Guarded(f.lineArt,
               "applyLineArt", <<f.lineArtThreshold, f.lineArtBlend, f.lineArtColorBlend>>),
       Guarded(f.findEdges, "applyFindEdges", <<f.findEdgesStrength, f.findEdgesBlend>>),
       Guarded(f.invert, "applyInvert", <<>>),
       Guarded(f.levels,
               "applyLevels", <<f.levelsBlack, f.levelsWhite, f.levelsGamma, f.levelsMono>>),
       Guarded(f.halftone,
               "applyHalftone", <<f.halftoneSize, f.halftoneAngle, f.halftoneColorMode,
                                  f.halftoneColorBlend, f.halftoneBlendMode>>),
       Guarded(f.strokeEnabled,
               "applyStroke", <<f.strokeColor, f.strokeWidth, f.strokeInner, f.strokeOuter>>),
       Guarded(f.facetFilter > 0, "applyFacet", <<f.facetFilter, f.facetSize>>),
       Guarded(f.oilPaint, "applyOilPaint", <<f.oilPaintRadius, f.oilPaintLevels>>),
       Guarded(f.metalFilter, "applyMetal", <<f.metalIntensity>>),
       Guarded(f.paletteKnife,
               "applyPaletteKnife", <<f.paletteKnifeLength, f.paletteKnifeDirection>>),
       Guarded(f.textureFilter > 0,
               "applyTextureFilter", <<f.textureFilter, f.textureIntensity>>),
       Guarded(f.colorSepEnabled /\ RLt(R(0), f.colorSepMix),
               "applyColorSeparation", <<f.colorSepR, f.colorSepG, f.colorSepB, f.colorSepMix>>),
       Guarded(f.gameFilter > 0, "applyGameFilter", <<f.gameFilter, f.gameFilterIntensity>>),
       Guarded(f.channelShiftRG # 0 \/ f.channelShiftYB # 0 \/ f.channelShiftPC # 0,
               "applyChannelShifts", <<f.channelShiftRG, f.channelShiftYB, f.channelShiftPC>>),
       Guarded(f.gradientFade /\ f.gradientFadeAmount > 0,
               "applyGradientFade", <<f.gradientFadeDirection, f.gradientFadeAmount>>) >>

\* Lines 1886-1891 and 1942-1943: the two adjustments made after the catalog.
\* An optional argument is <<v>> when given and Undefined when left out;
\* `globalHueRotate && ...` is false when it is left out and when it is 0.
LayerAdjustments(globalHueRotate, layerSaturation) ==
    << Guarded(globalHueRotate # Undefined /\ globalHueRotate[1] # 0,
               "applyGlobalHueRotate", globalHueRotate),
       Guarded(layerSaturation # Undefined /\ layerSaturation[1] # 100,
               "applyLayerSaturation", layerSaturation) >>

\* processFiltersFromCanvas with the two adjustments made before the catalog.
processFiltersFromCanvasAdjustFirst(f, globalHueRotate, layerSaturation) ==
    CallsMade(LayerAdjustments(globalHueRotate, layerSaturation))
        \o CallsMade(CanvasFilterCatalog(f))

\* Lines 1913-1943: the calls processFiltersFromCanvas makes on its canvas.
processFiltersFromCanvas(f, globalHueRotate, layerSaturation) ==
    CallsMade(CanvasFilterCatalog(f))
        \o CallsMade(LayerAdjustments(globalHueRotate, layerSaturation))

\* processLayerFilters with the saturation adjusted before the catalog runs.
processLayerFiltersSaturationFirst(f, globalHueRotate, sourceCanvas, layerSaturation) ==
    CallsMade(LayerAdjustments(Undefined, layerSaturation))
        \o applyFilters(f)
        \o CallsMade(LayerAdjustments(globalHueRotate, Undefined))

\* Lines 1872-1893: the calls processLayerFilters makes on the canvas it returns.
processLayerFilters(f, globalHueRotate, sourceCanvas, layerSaturation) ==
    IF sourceCanvas
    THEN processFiltersFromCanvas(f, globalHueRotate, layerSaturation)
    ELSE applyFilters(f) \o CallsMade(LayerAdjustments(globalHueRotate, layerSaturation))

----------------------------------------------------------------------------
(* Specification of one call of applyFilters(img, filters) or of            *)
(* processLayerFilters(img, filters, undefined, globalHueRotate,            *)
(* sourceCanvas, layerSaturation).                                          *)

\* Changes to the default filters, each a sequence of <<field, value>>: one
\* that makes the condition of each conditional call true, in no particular
\* order, and then changes that leave a condition false.
Switches ==
    << << <<"gradientFade", TRUE>> >>,
       << <<"contrast", 20>> >>,
       << <<"brightness", -10>> >>,
       << <<"colorTempShift", 5>> >>,
       << <<"blurType", 2>>, <<"blurRadius", 1>> >>,
       << <<"frostedGlass", TRUE>> >>,
       << <<"noiseType", 4>>, <<"noiseAmount", 50>> >>,
       << <<"channelShiftYB", -5>> >>,
       << <<"posterize", 4>> >>,
       << <<"gameFilter", 2>> >>,
       << <<"posterizeStyle", 1>> >>,
       << <<"lineArt", TRUE>> >>,
       << <<"colorSepEnabled", TRUE>> >>,
       << <<"findEdges", TRUE>> >>,
       << <<"textureFilter", 3>> >>,
       << <<"invert", TRUE>> >>,
       << <<"paletteKnife", TRUE>> >>,
       << <<"levels", TRUE>> >>,
       << <<"metalFilter", TRUE>> >>,
       << <<"halftone", TRUE>> >>,
       << <<"oilPaint", TRUE>> >>,
       << <<"strokeEnabled", TRUE>> >>,
       << <<"facetFilter", 1>> >>,
       << <<"blurType", 1>> >>,
       << <<"noiseAmount", 50>> >>,
       << <<"frostedGlass", TRUE>>, <<"frostedGlassAmount", 0>> >>,
       << <<"colorSepEnabled", TRUE>>, <<"colorSepMix", R(0)>> >>,
       << <<"gradientFade", TRUE>>, <<"gradientFadeAmount", 0>> >>,
       << <<"strokeWidth", 1>>, <<"levelsMono", TRUE>> >> >>

\* The number of conditional calls in applyFilters.
CatalogSize == Len(FilterCatalog(defaultFilters))

RECURSIVE Change(_, _)
Change(f, changes) ==
    IF changes = <<>> THEN f
    ELSE Change([f EXCEPT ![Head(changes)[1]] = Head(changes)[2]], Tail(changes))

\* The filters with the switches numbered in S made, in the order of Switches.
RECURSIVE WithSwitches(_, _)
WithSwitches(f, S) ==
    IF S = {} THEN f
    ELSE LET k == CHOOSE i \in S : \A j \in S : i <= j
         IN  WithSwitches(Change(f, Switches[k]), S \ {k})

MaxSwitches == 2

\* The sets of at most k switches.
RECURSIVE SwitchSets(_)
SwitchSets(k) ==
    IF k = 0 THEN {{}}
    ELSE SwitchSets(k - 1)
            \cup {S \cup {i} : S \in SwitchSets(k - 1), i \in 1..Len(Switches)}

\* The filter records tried: the defaults with at most MaxSwitches switches
\* made, and the defaults with every condition made true.
FilterRecords ==
    {WithSwitches(defaultFilters, S) : S \in SwitchSets(MaxSwitches)}
        \cup {WithSwitches(defaultFilters, 1..CatalogSize + 1)}

HueRotations == {Undefined, <<0>>, <<30>>}

LayerSaturations == {Undefined, <<100>>, <<50>>}

InitPipeline ==
    /\ src \in {TaggedBuffer(1, 1), TaggedBuffer(2, 2)}
    /\ filters \in FilterRecords
    /\ \/ /\ pc = "applyFilters"
          /\ args = [globalHueRotate |-> Undefined, sourceCanvas |-> FALSE,
                     layerSaturation |-> Undefined]
       \/ /\ pc = "processLayerFilters"
          /\ \E hue \in HueRotations : \E sat \in LayerSaturations :
             \E sourceCanvas \in BOOLEAN :
                args = [globalHueRotate |-> hue, sourceCanvas |-> sourceCanvas,
                        layerSaturation |-> sat]
    /\ canvas = None
    /\ result = Null
    /\ applied = <<>>
    /\ editor = None

CallApplyFilters ==
    /\ pc = "applyFilters"
    /\ canvas' = imgToCanvas(src)
    /\ applied' = applyFilters(filters)
    /\ pc' = "done"
    /\ UNCHANGED <<args, src, result, filters, editor>>

CallProcessLayerFilters ==
    /\ pc = "processLayerFilters"
    /\ canvas' = imgToCanvas(src)
    /\ applied' = processLayerFilters(filters, args.globalHueRotate,
                                      args.sourceCanvas, args.layerSaturation)
    /\ pc' = "done"
    /\ UNCHANGED <<args, src, result, filters, editor>>

NextPipeline == CallApplyFilters \/ CallProcessLayerFilters

SpecPipeline == InitPipeline /\ [][NextPipeline]_vars

\* C1: applyFilters with the all-default filters and no maxSize returns a
\* buffer identical to the input buffer: no condition of the pipeline holds, so
\* no filter is called on the canvas drawn from the image.
C1_DefaultFiltersAreIdentity ==
    (pc = "done" /\ filters = defaultFilters /\ args.globalHueRotate = Undefined
        /\ args.layerSaturation = Undefined /\ ~args.sourceCanvas) =>
        /\ applied = <<>>
        /\ canvas = src

\* applyFilters has returned for the default filters and a 2x2 image.
C1_Witness ==
    /\ pc = "done"
    /\ filters = defaultFilters
    /\ args.globalHueRotate = Undefined /\ args.layerSaturation = Undefined
    /\ ~args.sourceCanvas
    /\ src = TaggedBuffer(2, 2)
    /\ canvas = src
    /\ applied = <<>>

\* The order of the filter families that the pipeline is to keep.
FamilyOrder ==
    <<"applyBrightnessContrast", "applyHueSatTemp", "applyNewBlur",
      "applyFrostedGlass", "applyNewNoise", "applyPosterize",
      "applyPosterizeStyle", "applyLineArt", "applyFindEdges", "applyInvert",
      "applyLevels", "applyHalftone", "applyStroke", "applyFacet",
      "applyOilPaint", "applyMetal", "applyPaletteKnife", "applyTextureFilter",
      "applyColorSeparation", "applyGameFilter", "applyChannelShifts",
      "applyGradientFade", "applyGlobalHueRotate", "applyLayerSaturation">>

FamilyRank(fn) == CHOOSE k \in 1..Len(FamilyOrder) : FamilyOrder[k] = fn

C26_CanvasPipelineIsApplyFilters ==
    (pc = "done" /\ args.sourceCanvas) =>
        \E adjust \in {CallsMade(LayerAdjustments(args.globalHueRotate, args.layerSaturation))} :
            /\ canvas = imgToCanvas(src)
            /\ Len(applied) >= Len(adjust)
            /\ SubSeq(applied, 1, Len(applied) - Len(adjust)) = applyFilters(filters)
            /\ SubSeq(applied, Len(applied) - Len(adjust) + 1, Len(applied)) = adjust
            /\ CanvasFilterCatalog(filters) = FilterCatalog(filters)

\* processFiltersFromCanvas has made every call of the catalog and both
\* adjustments.
C26_Witness ==
    /\ pc = "done"
    /\ args.sourceCanvas
    /\ Len(applied) = CatalogSize + 2
    /\ applied[CatalogSize + 1].fn = "applyGlobalHueRotate"

----------------------------------------------------------------------------
(* The size of the working canvas of imgToCanvas (lines 205-215) and of     *)
(* processFiltersFromCanvas (lines 1902-1910); maxSize is <<m>> when given. *)

\* Lines 206-210 and 1903-1907: <<w, h>> after the maxSize adjustment.
WorkingSize(w, h, maxSize) ==
    IF maxSize # Undefined /\ maxSize[1] # 0 /\ (w > maxSize[1] \/ h > maxSize[1])
    THEN <<MathRound(RMul(R(w), IF w >= h THEN Rat(maxSize[1], w) ELSE Rat(maxSize[1], h))),
           MathRound(RMul(R(h), IF w >= h THEN Rat(maxSize[1], w) ELSE Rat(maxSize[1], h)))>>
    ELSE <<w, h>>

MaxSourceSide == 12

MaxMaxSize == 4

InitResize ==
    /\ \E fn \in {"imgToCanvas", "processFiltersFromCanvas"} :
       \E w, h \in 1..MaxSourceSide :
       \E maxSize \in {Undefined} \cup {<<m>> : m \in 1..MaxMaxSize} :
          /\ pc = fn
          /\ args = [width |-> w, height |-> h, maxSize |-> maxSize]
    /\ src = None
    /\ canvas = None
    /\ result = Null
    /\ filters = None
    /\ applied = <<>>
    /\ editor = None

\* Lines 205-213: the canvas imgToCanvas creates.
CallImgToCanvas ==
    /\ pc = "imgToCanvas"
    /\ \E size \in {WorkingSize(args.width, args.height, args.maxSize)} :
          result' = [width |-> size[1], height |-> size[2]]
    /\ pc' = "done"
    /\ UNCHANGED <<args, src, canvas, filters, applied, editor>>

\* Lines 1902-1910: the canvas processFiltersFromCanvas creates.
CallProcessFiltersFromCanvas ==
    /\ pc = "processFiltersFromCanvas"
    /\ \E size \in {WorkingSize(args.width, args.height, args.maxSize)} :
          result' = [width |-> size[1], height |-> size[2]]
    /\ pc' = "done"
    /\ UNCHANGED <<args, src, canvas, filters, applied, editor>>

NextResize == CallImgToCanvas \/ CallProcessFiltersFromCanvas

SpecResize == InitResize /\ [][NextResize]_vars

\* C30: with maxSize given, a source wider or taller than maxSize gets a
\* working canvas whose width and height are both at most maxSize and at
\* least 1, and a source that exceeds it in neither keeps its size.
C30_WorkingSizeWithinBounds ==
    (pc = "done" /\ args.maxSize # Undefined) =>
        IF args.width > args.maxSize[1] \/ args.height > args.maxSize[1]
        THEN /\ result.width \in 1..args.maxSize[1]
             /\ result.height \in 1..args.maxSize[1]
        ELSE result.width = args.width /\ result.height = args.height

----------------------------------------------------------------------------
(* The undo and redo histories of the editor component (unnamed/part_000).  *)
(* `editor` is a record of the component's state: layers, selectedLayerId,  *)
(* selectedLayerIds, the undoStacks and redoStacks maps, layerHistory and   *)
(* layerCounter.  A canvas is known by its content, a number; a layer's     *)
(* sourceCanvas also carries the identity of the canvas object, since       *)
(* snapshots share it with the layer (line 326 copies the layer shallowly)  *)
(* and handleMagicWand paints on it in place.  `tick` numbers the contents  *)
(* and objects created so far.  A layer id is the number in `layer-N`, and  *)
(* 0 stands for null.                                                       *)

MAX_UNDO == 15

MAX_LAYER_HISTORY == 15

\* Line 1099: the cap of the wand history.
MaxWandHistory == 15

Last(s) == s[Len(s)]

Front(s) == SubSeq(s, 1, Len(s) - 1)

\* push, then shift when longer than the cap.
PushCapped(s, e, cap) == IF Len(s) + 1 > cap THEN Tail(Append(s, e)) ELSE Append(s, e)

\* Map.get(id) || []
StackOf(map, id) == IF id \in DOMAIN map THEN map[id] ELSE <<>>

\* Map.set(id, stack)
MapSet(map, id, stack) == [k \in DOMAIN map \cup {id} |-> IF k = id THEN stack ELSE map[k]]

\* Map.delete for the ids in S
MapDelete(map, S) == [k \in DOMAIN map \ S |-> map[k]]

\* layers.find(l => l.id === id): <<layer>>, or Undefined.
FindLayer(layers, id) ==
    IF \E k \in 1..Len(layers) : layers[k].id = id
    THEN <<layers[CHOOSE k \in 1..Len(layers) : layers[k].id = id]>>
    ELSE Undefined

\* prev.map(l => l.id === id ? change(l) : l), for the new values of the
\* fields sourceCanvas, drawingCanvas, wandHistory and wandFuture.
UpdateLayer(layers, id, source, drawing, history, future) ==
    [k \in 1..Len(layers) |->
        IF layers[k].id = id
        THEN [layers[k] EXCEPT !.sourceCanvas = source, !.drawingCanvas = drawing,
                               !.wandHistory = history, !.wandFuture = future]
        ELSE layers[k]]

\* Line 257-258, 317-322: the component as mounted.
NewEditor ==
    [layers |-> <<>>, selectedLayerId |-> 0, selectedLayerIds |-> {},
     undoStacks |-> <<>>, redoStacks |-> <<>>,
     layerHistory |-> [past |-> <<>>, future |-> <<>>],
     layerCounter |-> 0, tick |-> 1]

\* Lines 380-385.
handleLayerSelect(ed, id) ==
    [ed EXCEPT !.selectedLayerId = id, !.selectedLayerIds = IF id = 0 THEN {} ELSE {id}]

\* Lines 404-445: an image layer of a new image, selected.
importImageFile(ed) ==
    handleLayerSelect(
        [ed EXCEPT !.layerCounter = @ + 1,
                   !.tick = @ + 1,
                   !.layers = Append(@, [id |-> ed.layerCounter + 1, type |-> "image",
                                         image |-> <<ed.tick>>, sourceCanvas |-> Undefined,
                                         drawingCanvas |-> Undefined,
                                         wandHistory |-> Undefined, wandFuture |-> Undefined])],
        ed.layerCounter + 1)

\* Lines 523-537: a drawing layer with a blank canvas (content 0), selected.
addDrawingLayer(ed) ==
    handleLayerSelect(
        [ed EXCEPT !.layerCounter = @ + 1,
                   !.layers = Append(@, [id |-> ed.layerCounter + 1, type |-> "drawing",
                                         image |-> Undefined, sourceCanvas |-> Undefined,
                                         drawingCanvas |-> <<0>>,
                                         wandHistory |-> Undefined, wandFuture |-> Undefined])],
        ed.layerCounter + 1)

\* Lines 324-334.  The snapshot shares the layers' sourceCanvas objects and
\* copies the drawing canvases.
saveLayerSnapshot(ed) ==
    [ed EXCEPT !.layerHistory =
        [past |-> PushCapped(ed.layerHistory.past, ed.layers, MAX_LAYER_HISTORY),
         future |-> <<>>]]

\* Lines 336-349.
undoLayerAction(ed) ==
    IF ed.layerHistory.past = <<>> THEN ed
    ELSE [ed EXCEPT !.layerHistory = [past |-> Front(ed.layerHistory.past),
                                      future |-> Append(ed.layerHistory.future, ed.layers)],
                    !.layers = Last(ed.layerHistory.past),
                    !.selectedLayerId =
                        IF Len(Last(ed.layerHistory.past)) > 0
                        THEN Last(Last(ed.layerHistory.past)).id ELSE @]

\* Lines 351-363.
redoLayerAction(ed) ==
    IF ed.layerHistory.future = <<>> THEN ed
    ELSE [ed EXCEPT !.layerHistory = [past |-> Append(ed.layerHistory.past, ed.layers),
                                      future |-> Front(ed.layerHistory.future)],
                    !.layers = Last(ed.layerHistory.future)]

\* Lines 668-680 (no marquee selection): the snapshot, then the selected
\* layers and their stacks removed.
handleDelete(ed) ==
    LET gone == IF ed.selectedLayerIds = {} /\ ed.selectedLayerId # 0
                THEN {ed.selectedLayerId} ELSE ed.selectedLayerIds
    IN  IF gone = {} THEN saveLayerSnapshot(ed)
        ELSE [saveLayerSnapshot(ed) EXCEPT
                  !.layers = SelectSeq(@, LAMBDA l : l.id \notin gone),
                  !.selectedLayerId = 0, !.selectedLayerIds = {},
                  !.undoStacks = MapDelete(@, gone),
                  !.redoStacks = MapDelete(@, gone)]

\* Lines 1505-1515.
handleClearAll(ed) ==
    IF Len(ed.layers) = 0 THEN ed
    ELSE [saveLayerSnapshot(ed) EXCEPT !.layers = <<>>, !.selectedLayerId = 0,
                                       !.selectedLayerIds = {}]

\* The content of the canvas object `ref` replaced wherever a layer holds the
\* object as its sourceCanvas.
PaintedOn(layers, ref, px) ==
    [k \in 1..Len(layers) |->
        IF layers[k].sourceCanvas # Undefined /\ layers[k].sourceCanvas[1].ref = ref
        THEN [layers[k] EXCEPT !.sourceCanvas = <<[ref |-> ref, px |-> px]>>]
        ELSE layers[k]]

\* Lines 850-854 and 905-909: the content of currentSource.
CurrentSource(layer) ==
    IF layer.sourceCanvas # Undefined THEN layer.sourceCanvas[1].px
    ELSE IF layer.image # Undefined THEN layer.image[1]
    ELSE 0

\* Lines 1087-1155: the wand on layer layerId.  The flood fill paints on the
\* layer's sourceCanvas object itself when there is one (lines 1090, 1148),
\* giving it the new content ed.tick; the history receives a copy taken
\* before.
handleMagicWand(ed, layerId) ==
    LET found == FindLayer(ed.layers, layerId)
        ref == IF found[1].sourceCanvas # Undefined THEN found[1].sourceCanvas[1].ref
               ELSE ed.tick
    IN  IF found = Undefined \/ found[1].type # "image" \/ found[1].image = Undefined THEN ed
        ELSE [ed EXCEPT
                 !.tick = @ + 1,
                 !.layerHistory =
                     [past |-> [k \in 1..Len(@.past) |-> PaintedOn(@.past[k], ref, ed.tick)],
                      future |-> [k \in 1..Len(@.future) |-> PaintedOn(@.future[k], ref, ed.tick)]],
                 !.layers =
                     UpdateLayer(PaintedOn(@, ref, ed.tick), layerId,
                                 <<[ref |-> ref, px |-> ed.tick]>>, found[1].drawingCanvas,
                                 PushCapped(found[1].wandHistory, CurrentSource(found[1]),
                                            MaxWandHistory),
                                 <<>>)]

\* handleBeforeStroke without the shift of line 828.
handleBeforeStrokeUncapped(ed, layerId) ==
    LET found == FindLayer(ed.layers, layerId)
    IN  IF found = Undefined \/ found[1].drawingCanvas = Undefined THEN ed
        ELSE [ed EXCEPT
                 !.undoStacks = MapSet(@, layerId,
                                       Append(StackOf(@, layerId), found[1].drawingCanvas[1])),
                 !.redoStacks = MapSet(@, layerId, <<>>)]

\* Lines 822-832.
handleBeforeStroke(ed, layerId) ==
    LET found == FindLayer(ed.layers, layerId)
    IN  IF found = Undefined \/ found[1].drawingCanvas = Undefined THEN ed
        ELSE [ed EXCEPT
                 !.undoStacks = MapSet(@, layerId,
                                       PushCapped(StackOf(@, layerId),
                                                  found[1].drawingCanvas[1], MAX_UNDO)),
                 !.redoStacks = MapSet(@, layerId, <<>>)]

\* CanvasView.tsx lines 780-790 and the pointer moves that follow: the stroke
\* painted on the layer's drawing canvas, which gets the new content ed.tick.
Paint(ed, layerId) ==
    [ed EXCEPT !.tick = @ + 1,
               !.layers = [k \in 1..Len(@) |->
                              IF @[k].id = layerId
                              THEN [@[k] EXCEPT !.drawingCanvas = <<ed.tick>>]
                              ELSE @[k]]]

\* Which of the branches of handleUndo is taken (lines 848, 877, 894).
UndoBranch(ed) ==
    LET found == FindLayer(ed.layers, ed.selectedLayerId)
    IN  IF ed.selectedLayerId # 0 /\ found # Undefined /\ Len(found[1].wandHistory) > 0
        THEN "wand"
        ELSE IF ed.selectedLayerId # 0 /\ Len(StackOf(ed.undoStacks, ed.selectedLayerId)) > 0
                  /\ found # Undefined /\ found[1].drawingCanvas # Undefined
        THEN "drawing"
        ELSE "undoLayerAction"

\* Lines 849-873: the wand branch of handleUndo for `layer`.  The popped
\* canvas becomes the sourceCanvas, an object of its own.
WandUndo(ed, layer) ==
    [ed EXCEPT !.tick = @ + 1,
               !.layers =
                   UpdateLayer(@, layer.id,
                               IF Len(layer.wandHistory) > 1
                               THEN <<[ref |-> ed.tick, px |-> Last(layer.wandHistory)]>>
                               ELSE Undefined,
                               layer.drawingCanvas,
                               Front(layer.wandHistory),
                               Append(layer.wandFuture, CurrentSource(layer)))]

\* Lines 876-891: the drawing branch of handleUndo for `layer`.
DrawingUndo(ed, layer) ==
    [ed EXCEPT !.redoStacks = MapSet(@, layer.id,
                                     Append(StackOf(@, layer.id), layer.drawingCanvas[1])),
               !.undoStacks = MapSet(@, layer.id, Front(@[layer.id])),
               !.layers = UpdateLayer(@, layer.id, layer.sourceCanvas,
                                      <<Last(ed.undoStacks[layer.id])>>,
                                      layer.wandHistory, layer.wandFuture)]

\* Lines 842-895.
handleUndo(ed) ==
    CASE UndoBranch(ed) = "wand" -> WandUndo(ed, FindLayer(ed.layers, ed.selectedLayerId)[1])
      [] UndoBranch(ed) = "drawing" ->
             DrawingUndo(ed, FindLayer(ed.layers, ed.selectedLayerId)[1])
      [] OTHER -> undoLayerAction(ed)

\* Which of the branches of handleRedo is taken (lines 903, 926, 943).
RedoBranch(ed) ==
    LET found == FindLayer(ed.layers, ed.selectedLayerId)
    IN  IF ed.selectedLayerId # 0 /\ found # Undefined /\ Len(found[1].wandFuture) > 0
        THEN "wand"
        ELSE IF ed.selectedLayerId # 0 /\ Len(StackOf(ed.redoStacks, ed.selectedLayerId)) > 0
                  /\ found # Undefined /\ found[1].drawingCanvas # Undefined
        THEN "drawing"
        ELSE "redoLayerAction"

\* Lines 904-922.
WandRedo(ed, layer) ==
    [ed EXCEPT !.tick = @ + 1,
               !.layers =
                   UpdateLayer(@, layer.id,
                               <<[ref |-> ed.tick, px |-> Last(layer.wandFuture)]>>,
                               layer.drawingCanvas,
                               Append(layer.wandHistory, CurrentSource(layer)),
                               Front(layer.wandFuture))]

\* Lines 925-940.
DrawingRedo(ed, layer) ==
    [ed EXCEPT !.undoStacks = MapSet(@, layer.id,
                                     Append(StackOf(@, layer.id), layer.drawingCanvas[1])),
               !.redoStacks = MapSet(@, layer.id, Front(@[layer.id])),
               !.layers = UpdateLayer(@, layer.id, layer.sourceCanvas,
                                      <<Last(ed.redoStacks[layer.id])>>,
                                      layer.wandHistory, layer.wandFuture)]

\* Lines 897-944.
handleRedo(ed) ==
    CASE RedoBranch(ed) = "wand" -> WandRedo(ed, FindLayer(ed.layers, ed.selectedLayerId)[1])
      [] RedoBranch(ed) = "drawing" ->
             DrawingRedo(ed, FindLayer(ed.layers, ed.selectedLayerId)[1])
      [] OTHER -> redoLayerAction(ed)

\* Line 1613: canUndo.
canUndo(ed) == UndoBranch(ed) \in {"wand", "drawing"} \/ ed.layerHistory.past # <<>>

MaxSteps == 7

MaxLayers == 2

LateStrokes == 14

LateSnapshots == 14

RECURSIVE Strokes(_, _, _)
Strokes(ed, layerId, n) ==
    IF n = 0 THEN ed
    ELSE CHOOSE late \in {Strokes(next, layerId, n - 1) :
                              next \in {Paint(handleBeforeStroke(ed, layerId), layerId)}} : TRUE

RECURSIVE Deletes(_, _)
Deletes(ed, n) ==
    IF n = 0 THEN ed
    ELSE CHOOSE late \in {Deletes(next, n - 1) : next \in {handleDelete(ed)}} : TRUE

\* A session further on: a drawing layer added and painted with LateStrokes
\* strokes, the selection dropped, and the delete key pressed LateSnapshots
\* times (with nothing selected each press only takes a snapshot).
LateSession ==
    Deletes(handleLayerSelect(Strokes(addDrawingLayer(NewEditor), 1, LateStrokes), 0),
            LateSnapshots)

InitEditor ==
    /\ pc = "mounted"
    /\ args = [stepsLeft |-> MaxSteps, layerId |-> 0]
    /\ editor \in {NewEditor, LateSession}
    /\ src = None
    /\ canvas = None
    /\ result = Null
    /\ filters = None
    /\ applied = <<>>

\* One handler run: `next` is the state it leaves, `calls` what it called.
\* `result` keeps the state the handler started from.
Handled(name, layerId, next, calls) ==
    /\ args.stepsLeft > 0
    /\ args' = [stepsLeft |-> args.stepsLeft - 1, layerId |-> layerId]
    /\ editor' = next
    /\ pc' = name
    /\ applied' = calls
    /\ UNCHANGED <<src, canvas, filters>>

ImportImageFile ==
    /\ editor.layerCounter < MaxLayers
    /\ Handled("importImageFile", 0, importImageFile(editor), <<>>)
    /\ result' = editor

AddDrawingLayer ==
    /\ editor.layerCounter < MaxLayers
    /\ Handled("addDrawingLayer", 0, addDrawingLayer(editor), <<>>)
    /\ result' = editor

HandleLayerSelect ==
    \E id \in {0} \cup {editor.layers[k].id : k \in 1..Len(editor.layers)} :
        /\ id # editor.selectedLayerId
        /\ Handled("handleLayerSelect", id, handleLayerSelect(editor, id), <<>>)
        /\ result' = editor

HandleDelete ==
    /\ Handled("handleDelete", 0, handleDelete(editor), <<"saveLayerSnapshot">>)
    /\ result' = editor

HandleClearAll ==
    /\ Handled("handleClearAll", 0, handleClearAll(editor),
               IF Len(editor.layers) = 0 THEN <<>> ELSE <<"saveLayerSnapshot">>)
    /\ result' = editor

\* CanvasView.tsx lines 775-778: the wand tool selects the layer hit, then
\* calls handleMagicWand.
HandleMagicWand ==
    \E k \in 1..Len(editor.layers) :
        /\ editor.layers[k].type # "drawing"
        /\ Handled("handleMagicWand", editor.layers[k].id,
                   handleMagicWand(handleLayerSelect(editor, editor.layers[k].id),
                                   editor.layers[k].id),
                   <<>>)
        /\ result' = editor

\* CanvasView.tsx lines 781-790: a brush stroke on the selected drawing layer.
Stroke ==
    \E found \in {FindLayer(editor.layers, editor.selectedLayerId)} :
        /\ found # Undefined
        /\ found[1].type = "drawing"
        /\ found[1].drawingCanvas # Undefined
        /\ Handled("handleBeforeStroke", found[1].id,
                   Paint(handleBeforeStroke(editor, found[1].id), found[1].id), <<>>)
        /\ result' = editor

HandleUndo ==
    /\ Handled("handleUndo", editor.selectedLayerId, handleUndo(editor), <<UndoBranch(editor)>>)
    /\ result' = editor

\* A redo that follows an undo keeps in `result` the state before the undo.
HandleRedo ==
    /\ Handled(IF pc = "handleUndo" THEN "handleUndo;handleRedo" ELSE "handleRedo",
               editor.selectedLayerId, handleRedo(editor),
               IF pc = "handleUndo" THEN applied \o <<RedoBranch(editor)>>
               ELSE <<RedoBranch(editor)>>)
    /\ result' = IF pc = "handleUndo" THEN result ELSE editor

NextEditor ==
    \/ ImportImageFile
    \/ AddDrawingLayer
    \/ HandleLayerSelect
    \/ HandleDelete
    \/ HandleClearAll
    \/ HandleMagicWand
    \/ Stroke
    \/ HandleUndo
    \/ HandleRedo

SpecEditor == InitEditor /\ [][NextEditor]_vars

\* What the layers hold, whichever canvas objects hold it.
Contents(layers) ==
    [k \in 1..Len(layers) |->
        [layers[k] EXCEPT !.sourceCanvas = IF @ = Undefined THEN Undefined ELSE <<@[1].px>>]]

\* C27: when undo is available, handleUndo followed at once by handleRedo
\* leaves the layer list as it was before the undo: the same layers with the
\* same source and drawing content and the same wand history, whichever of the
\* three mechanisms the undo used.
C27_UndoThenRedoRestores ==
    (pc = "handleUndo;handleRedo" /\ canUndo(result)) =>
        /\ Len(editor.layers) = Len(result.layers)
        /\ \A k \in 1..Len(result.layers) :
              /\ editor.layers[k].id = result.layers[k].id
              /\ Contents(editor.layers)[k].sourceCanvas = Contents(result.layers)[k].sourceCanvas
              /\ editor.layers[k].drawingCanvas = result.layers[k].drawingCanvas
              /\ editor.layers[k].wandHistory = result.layers[k].wandHistory

\* The wand history of layer id in `layers`, <<history>>, or Undefined when
\* the layer is not there.
WandHistoryOf(layers, id) ==
    IF FindLayer(layers, id) = Undefined THEN Undefined
    ELSE <<FindLayer(layers, id)[1].wandHistory>>

\* C29: one handleUndo, when undo is available, takes exactly one entry from
\* one history, chosen for the selected layer in the order wand history,
\* drawing undo stack (the layer having a drawing canvas), layer-level
\* snapshots, and leaves the other two histories as they were.
C29_UndoConsumesOneByPriority ==
    (pc = "handleUndo" /\ canUndo(result)) =>
        \A id \in {result.selectedLayerId} :
            CASE UndoBranch(result) = "wand" ->
                     /\ WandHistoryOf(editor.layers, id)
                            = <<Front(WandHistoryOf(result.layers, id)[1])>>
                     /\ editor.undoStacks = result.undoStacks
                     /\ editor.layerHistory.past = result.layerHistory.past
              [] UndoBranch(result) = "drawing" ->
                     /\ editor.undoStacks[id] = Front(result.undoStacks[id])
                     /\ \A other \in DOMAIN result.undoStacks \ {id} :
                           StackOf(editor.undoStacks, other) = result.undoStacks[other]
                     /\ WandHistoryOf(editor.layers, id) = WandHistoryOf(result.layers, id)
                     /\ editor.layerHistory.past = result.layerHistory.past
              [] OTHER ->
                     /\ editor.layerHistory.past = Front(result.layerHistory.past)
                     /\ editor.undoStacks = result.undoStacks
                     /\ (WandHistoryOf(result.layers, id) # Undefined
                            /\ WandHistoryOf(editor.layers, id) # Undefined)
                            => WandHistoryOf(editor.layers, id) = WandHistoryOf(result.layers, id)

\* C28: whatever strokes, undos and redos were made, every drawing undo stack
\* holds at most MAX_UNDO snapshots and the past of the layer history at most
\* MAX_LAYER_HISTORY; a stroke leaves its layer's redo stack empty and a
\* handler that called saveLayerSnapshot leaves the future list empty.
C28_HistoriesAreCapped ==
    /\ \A id \in DOMAIN editor.undoStacks : Len(editor.undoStacks[id]) <= MAX_UNDO
    /\ Len(editor.layerHistory.past) <= MAX_LAYER_HISTORY
    /\ pc = "handleBeforeStroke" => StackOf(editor.redoStacks, args.layerId) = <<>>
    /\ (Len(applied) > 0 /\ applied[1] = "saveLayerSnapshot") =>
           editor.layerHistory.future = <<>>

\* A stroke was made on a layer whose undo stack was full, so that its oldest
\* snapshot was dropped, the past of the layer history being full as well.
C28_Witness ==
    /\ pc = "handleBeforeStroke"
    /\ Len(StackOf(result.undoStacks, args.layerId)) = MAX_UNDO
    /\ Len(editor.undoStacks[args.layerId]) = MAX_UNDO
    /\ editor.undoStacks[args.layerId] # result.undoStacks[args.layerId]
    /\ Len(editor.layerHistory.past) = MAX_LAYER_HISTORY

=============================================================================
